---- MODULE Spec2Model ----
(***************************************************************************)
(* A model of the vHAL MCP server: the property catalog and its five-tier  *)
(* search (database.py), the documentation content cache (scrapers.py),    *)
(* the source-file fetcher with fallback URLs (core/analyzers.py) and the  *)
(* documentation summarizer (utils/summarizers.py).                        *)
(*                                                                         *)
(* Python strings are modelled as sequences of one-character strings, so   *)
(* that upper(), lower(), strip(), split() and the `in` test are computed  *)
(* and not assumed.                                                        *)
(***************************************************************************)
EXTENDS Integers, Sequences, FiniteSets, TLC

----------------------------------------------------------------------------
(* Python str operations.                                                  *)

UpperChars ==
  << "A","B","C","D","E","F","G","H","I","J","K","L","M",
     "N","O","P","Q","R","S","T","U","V","W","X","Y","Z" >>

LowerChars ==
  << "a","b","c","d","e","f","g","h","i","j","k","l","m",
     "n","o","p","q","r","s","t","u","v","w","x","y","z" >>

Digits == { "0","1","2","3","4","5","6","7","8","9" }

Whitespace == { " " }

Range(s) == { s[i] : i \in 1..Len(s) }

\* str.upper() and str.lower() on one character
CharUpper ==
  [c \in Range(UpperChars) \cup Range(LowerChars) |->
     IF c \in Range(UpperChars) THEN c
     ELSE UpperChars[CHOOSE i \in 1..26 : LowerChars[i] = c]]

CharLower ==
  [c \in Range(UpperChars) \cup Range(LowerChars) |->
     IF c \in Range(LowerChars) THEN c
     ELSE LowerChars[CHOOSE i \in 1..26 : UpperChars[i] = c]]

ToUpperChar(c) == IF c \in DOMAIN CharUpper THEN CharUpper[c] ELSE c

ToLowerChar(c) == IF c \in DOMAIN CharLower THEN CharLower[c] ELSE c

Upper(s) == [i \in 1..Len(s) |-> ToUpperChar(s[i])]

Lower(s) == [i \in 1..Len(s) |-> ToLowerChar(s[i])]

\* a in b
Contains(b, a) ==
  \E i \in 0..(Len(b) - Len(a)) : SubSeq(b, i + 1, i + Len(a)) = a

StartsWith(s, p) == Len(p) <= Len(s) /\ SubSeq(s, 1, Len(p)) = p

EndsWith(s, p) ==
  Len(p) <= Len(s) /\ SubSeq(s, Len(s) - Len(p) + 1, Len(s)) = p

RECURSIVE LStrip(_)
LStrip(s) ==
  IF s # << >> /\ Head(s) \in Whitespace THEN LStrip(Tail(s)) ELSE s

RECURSIVE RStrip(_)
RStrip(s) ==
  IF s # << >> /\ s[Len(s)] \in Whitespace
    THEN RStrip(SubSeq(s, 1, Len(s) - 1))
    ELSE s

Strip(s) == RStrip(LStrip(s))

\* s.split(sep): every separator cuts, empty pieces are kept
RECURSIVE SplitOnFrom(_, _, _, _)
SplitOnFrom(s, sep, i, cur) ==
  IF i > Len(s) THEN << cur >>
  ELSE IF s[i] = sep THEN << cur >> \o SplitOnFrom(s, sep, i + 1, << >>)
  ELSE SplitOnFrom(s, sep, i + 1, Append(cur, s[i]))

SplitOn(s, sep) == SplitOnFrom(s, sep, 1, << >>)

\* s.split(): runs of whitespace cut, empty pieces are dropped
RECURSIVE SplitWsFrom(_, _, _)
SplitWsFrom(s, i, cur) ==
  LET piece == IF cur = << >> THEN << >> ELSE << cur >>
  IN IF i > Len(s) THEN piece
     ELSE IF s[i] \in Whitespace THEN piece \o SplitWsFrom(s, i + 1, << >>)
     ELSE SplitWsFrom(s, i + 1, Append(cur, s[i]))

SplitWs(s) == SplitWsFrom(s, 1, << >>)

RECURSIVE Flatten(_)
Flatten(ss) == IF ss = << >> THEN << >> ELSE Head(ss) \o Flatten(Tail(ss))

Reverse(s) == [i \in 1..Len(s) |-> s[Len(s) + 1 - i]]

None == "None"

----------------------------------------------------------------------------
(* models.py                                                               *)

VhalCategory ==
  { "SEAT",
    "HVAC",
    "LIGHTS",
    "POWER",
    "BODY",
    "CABIN",
    "CLIMATE",
    "DISPLAY",
    "ENGINE",
    "INFO",
    "INSTRUMENT_CLUSTER",
    "MIRROR",
    "VEHICLE_MAP_SERVICE",
    "WINDOW",
    "VENDOR",
    "GENERAL" }

CategoryValue ==
  [c \in VhalCategory |->
     CASE c = "SEAT" -> <<"S","E","A","T">>
       [] c = "HVAC" -> <<"H","V","A","C">>
       [] c = "LIGHTS" -> <<"L","I","G","H","T","S">>
       [] c = "POWER" -> <<"P","O","W","E","R">>
       [] c = "BODY" -> <<"B","O","D","Y">>
       [] c = "CABIN" -> <<"C","A","B","I","N">>
       [] c = "CLIMATE" -> <<"C","L","I","M","A","T","E">>
       [] c = "DISPLAY" -> <<"D","I","S","P","L","A","Y">>
       [] c = "ENGINE" -> <<"E","N","G","I","N","E">>
       [] c = "INFO" -> <<"I","N","F","O">>
       [] c = "INSTRUMENT_CLUSTER" -> <<"I","N","S","T","R","U","M","E","N","T","_","C","L","U","S","T","E","R">>
       [] c = "MIRROR" -> <<"M","I","R","R","O","R">>
       [] c = "VEHICLE_MAP_SERVICE" -> <<"V","E","H","I","C","L","E","_","M","A","P","_","S","E","R","V","I","C","E">>
       [] c = "WINDOW" -> <<"W","I","N","D","O","W">>
       [] c = "VENDOR" -> <<"V","E","N","D","O","R">>
       [] c = "GENERAL" -> <<"G","E","N","E","R","A","L">>]

VhalProperty(name, id, category) ==
  [name |-> name, id |-> id, category |-> category]

----------------------------------------------------------------------------
(* database.py: VhalPropertyDatabase                                       *)

SEAT_PROPERTIES ==
  << << <<"S","E","A","T","_","M","E","M","O","R","Y","_","S","E","L","E","C","T">>, <<"0","x","0","B","5","6">> >>,
     << <<"S","E","A","T","_","M","E","M","O","R","Y","_","S","E","T">>, <<"0","x","0","B","5","7">> >>,
     << <<"S","E","A","T","_","B","E","L","T","_","B","U","C","K","L","E","D">>, <<"0","x","0","B","5","8">> >>,
     << <<"S","E","A","T","_","B","E","L","T","_","H","E","I","G","H","T","_","P","O","S">>, <<"0","x","0","B","5","9">> >>,
     << <<"S","E","A","T","_","B","E","L","T","_","H","E","I","G","H","T","_","M","O","V","E">>, <<"0","x","0","B","5","A">> >>,
     << <<"S","E","A","T","_","F","O","R","E","_","A","F","T","_","P","O","S">>, <<"0","x","0","B","5","B">> >>,
     << <<"S","E","A","T","_","F","O","R","E","_","A","F","T","_","M","O","V","E">>, <<"0","x","0","B","5","C">> >>,
     << <<"S","E","A","T","_","B","A","C","K","R","E","S","T","_","A","N","G","L","E","_","1","_","P","O","S">>, <<"0","x","0","B","5","D">> >>,
     << <<"S","E","A","T","_","B","A","C","K","R","E","S","T","_","A","N","G","L","E","_","1","_","M","O","V","E">>, <<"0","x","0","B","5","E">> >>,
     << <<"S","E","A","T","_","B","A","C","K","R","E","S","T","_","A","N","G","L","E","_","2","_","P","O","S">>, <<"0","x","0","B","5","F">> >>,
     << <<"S","E","A","T","_","B","A","C","K","R","E","S","T","_","A","N","G","L","E","_","2","_","M","O","V","E">>, <<"0","x","0","B","6","0">> >>,
     << <<"S","E","A","T","_","H","E","I","G","H","T","_","P","O","S">>, <<"0","x","0","B","6","1">> >>,
     << <<"S","E","A","T","_","H","E","I","G","H","T","_","M","O","V","E">>, <<"0","x","0","B","6","2">> >>,
     << <<"S","E","A","T","_","D","E","P","T","H","_","P","O","S">>, <<"0","x","0","B","6","3">> >>,
     << <<"S","E","A","T","_","D","E","P","T","H","_","M","O","V","E">>, <<"0","x","0","B","6","4">> >>,
     << <<"S","E","A","T","_","T","I","L","T","_","P","O","S">>, <<"0","x","0","B","6","5">> >>,
     << <<"S","E","A","T","_","T","I","L","T","_","M","O","V","E">>, <<"0","x","0","B","6","6">> >>,
     << <<"S","E","A","T","_","L","U","M","B","A","R","_","F","O","R","E","_","A","F","T","_","P","O","S">>, <<"0","x","0","B","6","7">> >>,
     << <<"S","E","A","T","_","L","U","M","B","A","R","_","F","O","R","E","_","A","F","T","_","M","O","V","E">>, <<"0","x","0","B","6","8">> >>,
     << <<"S","E","A","T","_","L","U","M","B","A","R","_","S","I","D","E","_","S","U","P","P","O","R","T","_","P","O","S">>, <<"0","x","0","B","6","9">> >>,
     << <<"S","E","A","T","_","L","U","M","B","A","R","_","S","I","D","E","_","S","U","P","P","O","R","T","_","M","O","V","E">>, <<"0","x","0","B","6","A">> >>,
     << <<"S","E","A","T","_","H","E","A","D","R","E","S","T","_","H","E","I","G","H","T","_","P","O","S">>, <<"0","x","0","B","6","B">> >>,
     << <<"S","E","A","T","_","H","E","A","D","R","E","S","T","_","H","E","I","G","H","T","_","M","O","V","E">>, <<"0","x","0","B","6","C">> >>,
     << <<"S","E","A","T","_","H","E","A","D","R","E","S","T","_","A","N","G","L","E","_","P","O","S">>, <<"0","x","0","B","6","D">> >>,
     << <<"S","E","A","T","_","H","E","A","D","R","E","S","T","_","A","N","G","L","E","_","M","O","V","E">>, <<"0","x","0","B","6","E">> >>,
     << <<"S","E","A","T","_","H","E","A","D","R","E","S","T","_","F","O","R","E","_","A","F","T","_","P","O","S">>, <<"0","x","0","B","6","F">> >>,
     << <<"S","E","A","T","_","H","E","A","D","R","E","S","T","_","F","O","R","E","_","A","F","T","_","M","O","V","E">>, <<"0","x","0","B","7","0">> >> >>

HVAC_PROPERTIES ==
  << << <<"H","V","A","C","_","F","A","N","_","S","P","E","E","D">>, <<"0","x","0","A","0","1">> >>,
     << <<"H","V","A","C","_","F","A","N","_","D","I","R","E","C","T","I","O","N">>, <<"0","x","0","A","0","2">> >>,
     << <<"H","V","A","C","_","T","E","M","P","E","R","A","T","U","R","E","_","C","U","R","R","E","N","T">>, <<"0","x","0","A","0","3">> >>,
     << <<"H","V","A","C","_","T","E","M","P","E","R","A","T","U","R","E","_","S","E","T">>, <<"0","x","0","A","0","4">> >>,
     << <<"H","V","A","C","_","D","E","F","R","O","S","T","E","R">>, <<"0","x","0","A","0","5">> >>,
     << <<"H","V","A","C","_","A","C","_","O","N">>, <<"0","x","0","A","0","6">> >>,
     << <<"H","V","A","C","_","M","A","X","_","A","C","_","O","N">>, <<"0","x","0","A","0","7">> >>,
     << <<"H","V","A","C","_","M","A","X","_","D","E","F","R","O","S","T","_","O","N">>, <<"0","x","0","A","0","8">> >>,
     << <<"H","V","A","C","_","R","E","C","I","R","C","_","O","N">>, <<"0","x","0","A","0","9">> >>,
     << <<"H","V","A","C","_","D","U","A","L","_","O","N">>, <<"0","x","0","A","0","A">> >>,
     << <<"H","V","A","C","_","A","U","T","O","_","O","N">>, <<"0","x","0","A","0","B">> >>,
     << <<"H","V","A","C","_","S","E","A","T","_","T","E","M","P","E","R","A","T","U","R","E">>, <<"0","x","0","A","0","C">> >>,
     << <<"H","V","A","C","_","S","I","D","E","_","M","I","R","R","O","R","_","H","E","A","T">>, <<"0","x","0","A","0","D">> >>,
     << <<"H","V","A","C","_","S","T","E","E","R","I","N","G","_","W","H","E","E","L","_","H","E","A","T">>, <<"0","x","0","A","0","E">> >>,
     << <<"H","V","A","C","_","T","E","M","P","E","R","A","T","U","R","E","_","D","I","S","P","L","A","Y","_","U","N","I","T","S">>, <<"0","x","0","A","0","F">> >>,
     << <<"H","V","A","C","_","A","C","T","U","A","L","_","F","A","N","_","S","P","E","E","D","_","R","P","M">>, <<"0","x","0","A","1","0">> >>,
     << <<"H","V","A","C","_","P","O","W","E","R","_","O","N">>, <<"0","x","0","A","1","1">> >>,
     << <<"H","V","A","C","_","F","A","N","_","D","I","R","E","C","T","I","O","N","_","A","V","A","I","L","A","B","L","E">>, <<"0","x","0","A","1","2">> >>,
     << <<"H","V","A","C","_","A","U","T","O","_","R","E","C","I","R","C","_","O","N">>, <<"0","x","0","A","1","3">> >>,
     << <<"H","V","A","C","_","S","E","A","T","_","V","E","N","T","I","L","A","T","I","O","N">>, <<"0","x","0","A","1","4">> >> >>

PROPERTIES ==
  << [category |-> "SEAT", properties |-> SEAT_PROPERTIES],
     [category |-> "HVAC", properties |-> HVAC_PROPERTIES] >>

\* The records in catalog (dict insertion) order.
CatalogProps ==
  Flatten([c \in 1..Len(PROPERTIES) |->
             [i \in 1..Len(PROPERTIES[c].properties) |->
                VhalProperty(PROPERTIES[c].properties[i][1],
                             PROPERTIES[c].properties[i][2],
                             PROPERTIES[c].category)]])

CatalogNames == [i \in 1..Len(CatalogProps) |-> CatalogProps[i].name]

CatalogCategories == { PROPERTIES[c].category : c \in 1..Len(PROPERTIES) }

PropNamed(name) ==
  CatalogProps[CHOOSE i \in 1..Len(CatalogProps) : CatalogProps[i].name = name]

Names(props) == { props[i].name : i \in 1..Len(props) }

Keywords(name) == SplitOn(name, "_")

\* _category_index after _build_indexes
BuiltCategoryIndex ==
  [cat \in CatalogCategories |->
     LET InCat(p) == p.category = cat IN SelectSeq(CatalogProps, InCat)]

\* Mutation of the exact index: every key gets the record that was built
\* last in its category instead of its own record.
BuiltExactMatchIndexStale ==
  [k \in Range(CatalogNames) \cup { Lower(n) : n \in Range(CatalogNames) } |->
     LET own == CHOOSE i \in 1..Len(CatalogProps) :
                  k \in { CatalogProps[i].name, Lower(CatalogProps[i].name) }
         InCat(p) == p.category = CatalogProps[own].category
         same == SelectSeq(CatalogProps, InCat)
     IN same[Len(same)]]

\* _exact_match_index after _build_indexes: name and name.lower()
BuiltExactMatchIndex ==
  [k \in Range(CatalogNames) \cup { Lower(n) : n \in Range(CatalogNames) } |->
     LET last == CHOOSE i \in 1..Len(CatalogProps) :
                   /\ k \in { CatalogProps[i].name, Lower(CatalogProps[i].name) }
                   /\ \A j \in (i + 1)..Len(CatalogProps) :
                        k \notin { CatalogProps[j].name, Lower(CatalogProps[j].name) }
     IN CatalogProps[last]]

\* _keyword_index after _build_indexes: keyword and keyword.lower()
BuiltKeywordIndex ==
  LET keys == UNION { Range(Keywords(n)) \cup { Lower(k) : k \in Range(Keywords(n)) } :
                      n \in Range(CatalogNames) }
  IN [k \in keys |->
        { n \in Range(CatalogNames) :
            \E kw \in Range(Keywords(n)) : k = kw \/ k = Lower(kw) }]

\* What one record appends under key k: once per keyword equal to k, then
\* once more when its full lower-case name is k.
PartialAppends(prop, k) ==
  LET kws  == Keywords(prop.name)
      IsK(kw) == Lower(kw) = k
      hits == SelectSeq(kws, IsK)
  IN [i \in 1..Len(hits) |-> prop]
     \o (IF Lower(prop.name) = k THEN << prop >> ELSE << >>)

\* Mutation of the partial index: the whole names only, no fragments.
BuiltPartialMatchIndexNamesOnly ==
  [k \in { Lower(n) : n \in Range(CatalogNames) } |->
     LET Named(p) == Lower(p.name) = k IN SelectSeq(CatalogProps, Named)]

\* _partial_match_index after _build_indexes
BuiltPartialMatchIndex ==
  LET keys == UNION { { Lower(k) : k \in Range(Keywords(n)) } \cup { Lower(n) } :
                      n \in Range(CatalogNames) }
  IN [k \in keys |->
        Flatten([i \in 1..Len(CatalogProps) |-> PartialAppends(CatalogProps[i], k)])]

----------------------------------------------------------------------------
(* search_properties                                                       *)

\* Iterating a Python set of names: the names of the set, in the order
\* in which they occur in `iter`.
IterSet(S, iter) == LET In(n) == n \in S IN SelectSeq(iter, In)

\* Mutation of the append loop: the matched_names test is dropped.
AppendAll(matches, xs) == matches \o xs

\* for x in xs: if x.name not in matched_names: matches.append(x)
RECURSIVE AppendNew(_, _)
AppendNew(matches, xs) ==
  IF xs = << >> THEN matches
  ELSE IF Head(xs).name \in Names(matches) THEN AppendNew(matches, Tail(xs))
  ELSE AppendNew(Append(matches, Head(xs)), Tail(xs))

\* Mutation of the category loop: it collects every matching category and
\* never returns early.
CategoryTierNoReturn(cidx, keyword_upper, c, matches) ==
  LET Hit(p) == Contains(CategoryValue[p.category], keyword_upper)
  IN [ret |-> FALSE, matches |-> matches \o SelectSeq(CatalogProps, Hit)]

\* 2. the category loop; ret is TRUE when the loop returned early
RECURSIVE CategoryTier(_, _, _, _)
CategoryTier(cidx, keyword_upper, c, matches) ==
  IF c > Len(PROPERTIES) THEN [ret |-> FALSE, matches |-> matches]
  ELSE IF Contains(CategoryValue[PROPERTIES[c].category], keyword_upper)
    THEN LET extended == matches \o cidx[PROPERTIES[c].category]
         IN IF extended # << >>
              THEN [ret |-> TRUE, matches |-> extended]
              ELSE CategoryTier(cidx, keyword_upper, c + 1, extended)
    ELSE CategoryTier(cidx, keyword_upper, c + 1, matches)

\* Mutation of the keyword tier: only the first term of the query is
\* looked up.
KeywordTierFirstTerm(kidx, eidx, search_terms, matches, iter) ==
  IF search_terms = << >> \/ Head(search_terms) \notin DOMAIN kidx THEN matches
  ELSE LET names == IterSet(kidx[Head(search_terms)], iter)
       IN matches \o [i \in 1..Len(names) |-> eidx[names[i]]]

\* 3. keyword index, term by term
RECURSIVE KeywordTier(_, _, _, _, _)
KeywordTier(kidx, eidx, search_terms, matches, iter) ==
  IF search_terms = << >> THEN matches
  ELSE LET term == Head(search_terms)
           hits == IF term \in DOMAIN kidx
                     THEN LET Known(n) == n \in DOMAIN eidx
                              names == SelectSeq(IterSet(kidx[term], iter), Known)
                          IN [i \in 1..Len(names) |-> eidx[names[i]]]
                     ELSE << >>
       IN KeywordTier(kidx, eidx, Tail(search_terms), AppendNew(matches, hits), iter)

\* 4. partial match index, term by term
RECURSIVE PartialTier(_, _, _)
PartialTier(pidx, search_terms, matches) ==
  IF search_terms = << >> THEN matches
  ELSE LET term == Head(search_terms)
           hits == IF term \in DOMAIN pidx THEN pidx[term] ELSE << >>
       IN PartialTier(pidx, Tail(search_terms), AppendNew(matches, hits))

\* Mutation of the test of the scan: the whole query only, not its terms.
SubstringHitWholeQuery(name, keyword_upper, keyword_lower, search_terms) ==
  \/ Contains(name, keyword_upper)
  \/ Contains(Lower(name), keyword_lower)

\* the test of the substring scan
SubstringHit(name, keyword_upper, keyword_lower, search_terms) ==
  \/ Contains(name, keyword_upper)
  \/ Contains(Lower(name), keyword_lower)
  \/ \E t \in 1..Len(search_terms) : Contains(Lower(name), search_terms[t])

\* 5. substring scan over the catalog
SubstringTier(keyword_upper, keyword_lower, search_terms, matches) ==
  LET Hit(p) == SubstringHit(p.name, keyword_upper, keyword_lower, search_terms)
  IN AppendNew(matches, SelectSeq(CatalogProps, Hit))

\* Mutation of the final concatenation: the four groups in reverse.
RelevanceOrderReversed(matches, keyword_upper) ==
  LET IsExact(m)  == keyword_upper = m.name
      IsStart(m)  == StartsWith(m.name, keyword_upper) /\ keyword_upper # m.name
      IsInside(m) == Contains(m.name, keyword_upper) /\ ~StartsWith(m.name, keyword_upper)
      IsOther(m)  == ~Contains(m.name, keyword_upper)
  IN SelectSeq(matches, IsOther) \o SelectSeq(matches, IsInside)
       \o SelectSeq(matches, IsStart) \o SelectSeq(matches, IsExact)

\* Sort by relevance: exact > starts_with > contains > other
RelevanceOrder(matches, keyword_upper) ==
  LET IsExact(m)  == keyword_upper = m.name
      IsStart(m)  == StartsWith(m.name, keyword_upper) /\ keyword_upper # m.name
      IsInside(m) == Contains(m.name, keyword_upper) /\ ~StartsWith(m.name, keyword_upper)
      IsOther(m)  == ~Contains(m.name, keyword_upper)
  IN SelectSeq(matches, IsExact) \o SelectSeq(matches, IsStart)
       \o SelectSeq(matches, IsInside) \o SelectSeq(matches, IsOther)

\* Mutation of the blank test: no query is taken for blank.
IsBlankNever(keyword) == FALSE

IsBlank(keyword) == Strip(keyword) = << >>

\* search_properties(keyword) on built indexes; iter is the order in which
\* this process iterates its sets of names.
search_properties(idx, keyword, iter) ==
  LET keyword_upper == Upper(keyword)
      keyword_lower == Lower(keyword)
      bycat == CategoryTier(idx.category, keyword_upper, 1, << >>)
      search_terms == SplitWs(keyword_lower)
      m3 == KeywordTier(idx.keyword, idx.exact, search_terms, bycat.matches, iter)
      m4 == IF m3 = << >> THEN PartialTier(idx.partial, search_terms, m3) ELSE m3
      m5 == IF m4 = << >>
              THEN SubstringTier(keyword_upper, keyword_lower, search_terms, m4)
              ELSE m4
  IN IF IsBlank(keyword) THEN << >>
     ELSE IF keyword_upper \in DOMAIN idx.exact THEN << idx.exact[keyword_upper] >>
     ELSE IF keyword_lower \in DOMAIN idx.exact THEN << idx.exact[keyword_lower] >>
     ELSE IF bycat.ret THEN bycat.matches
     ELSE RelevanceOrder(m5, keyword_upper)

\* lookup_android_source_code: the section headings of the text it returns
lookup_android_source_code(property_matches) ==
  << "Android Source Code Lookup for:" >>
    \o (IF property_matches # << >>
          THEN << "## Vehicle Property Definitions:" >> ELSE << >>)
    \o << "## Source Code Locations:", "## Search URL:" >>
    \o (IF \E i \in 1..Len(property_matches) :
             Contains(property_matches[i].name, <<"S","E","A","T">>)
          THEN << "## Seat Property Usage:" >> ELSE << >>)

----------------------------------------------------------------------------
(* _build_indexes step by step: the None test, the four assignments of an  *)
(* empty dict, and the loop over the categories, one category at a time.   *)

\* {}
EmptyDict == << >>

\* the records of category number c of PROPERTIES
CategoryProps(c) == BuiltCategoryIndex[PROPERTIES[c].category]

\* one iteration of the outer loop, lines 86-117, on each index
FillCategoryIndex(d, c) ==
  [cat \in DOMAIN d \cup { PROPERTIES[c].category } |->
     IF cat = PROPERTIES[c].category THEN CategoryProps(c) ELSE d[cat]]

FillExactMatchIndex(d, c) ==
  LET props == CategoryProps(c)
      new == { props[i].name : i \in 1..Len(props) }
               \cup { Lower(props[i].name) : i \in 1..Len(props) }
  IN [k \in DOMAIN d \cup new |-> IF k \in new THEN BuiltExactMatchIndex[k] ELSE d[k]]

FillKeywordIndex(d, c) ==
  LET names == Names(CategoryProps(c))
      new == { k \in DOMAIN BuiltKeywordIndex : BuiltKeywordIndex[k] \cap names # {} }
  IN [k \in DOMAIN d \cup new |->
        (IF k \in DOMAIN d THEN d[k] ELSE {})
          \cup (IF k \in new THEN BuiltKeywordIndex[k] \cap names ELSE {})]

FillPartialMatchIndex(d, c) ==
  LET InCat(p) == p.category = PROPERTIES[c].category
      new == { k \in DOMAIN BuiltPartialMatchIndex :
                 SelectSeq(BuiltPartialMatchIndex[k], InCat) # << >> }
  IN [k \in DOMAIN d \cup new |->
        (IF k \in DOMAIN d THEN d[k] ELSE << >>)
          \o (IF k \in new THEN SelectSeq(BuiltPartialMatchIndex[k], InCat)
              ELSE << >>)]

\* the first category of PROPERTIES whose value contains keyword_upper; 0
\* when there is none
FirstCategoryHit(keyword_upper) ==
  LET hits == { c \in 1..Len(PROPERTIES) :
                  Contains(CategoryValue[PROPERTIES[c].category], keyword_upper) }
  IN IF hits = {} THEN 0 ELSE CHOOSE c \in hits : \A h \in hits : c <= h

\* search_properties after its call of _build_indexes, on the indexes as
\* they are at that moment: an index that is still None raises TypeError,
\* a category missing from _category_index raises KeyError
ReadIndexes(kidx, cidx, eidx, pidx, keyword, iter) ==
  LET keyword_upper == Upper(keyword)
      keyword_lower == Lower(keyword)
      hit == FirstCategoryHit(keyword_upper)
      search_terms == SplitWs(keyword_lower)
  IN IF IsBlank(keyword) THEN [kind |-> "list", value |-> << >>]
     ELSE IF eidx.none THEN [kind |-> "TypeError"]
     ELSE IF keyword_upper \in DOMAIN eidx.d \/ keyword_lower \in DOMAIN eidx.d
       THEN [kind |-> "list",
             value |-> search_properties([keyword |-> kidx.d, category |-> << >>,
                                          exact |-> eidx.d, partial |-> << >>],
                                         keyword, iter)]
     ELSE IF hit # 0 /\ cidx.none THEN [kind |-> "TypeError"]
     ELSE IF hit # 0 /\ PROPERTIES[hit].category \notin DOMAIN cidx.d
       THEN [kind |-> "KeyError"]
     ELSE IF hit = 0 /\ pidx.none
               /\ KeywordTier(kidx.d, eidx.d, search_terms, << >>, iter) = << >>
               /\ search_terms # << >>
       THEN [kind |-> "TypeError"]
     ELSE [kind |-> "list",
           value |-> search_properties(
                       [keyword |-> kidx.d, category |-> cidx.d, exact |-> eidx.d,
                        partial |-> IF pidx.none THEN << >> ELSE pidx.d],
                       keyword, iter)]

----------------------------------------------------------------------------
(* Inputs of the search.                                                   *)

MaxCasePeriod == 2
MaxTerms == 2
MaxQueryLen == 2

\* The ways of writing s where the case of the letters repeats with a
\* period of at most MaxCasePeriod characters.
CaseMasks == UNION { [1..p -> {"upper", "lower"}] : p \in 1..MaxCasePeriod }

Cased(s, mask) ==
  [i \in 1..Len(s) |->
     IF mask[((i - 1) % Len(mask)) + 1] = "upper"
       THEN ToUpperChar(s[i]) ELSE ToLowerChar(s[i])]

NameQueries ==
  { Cased(n, mask) : n \in Range(CatalogNames), mask \in CaseMasks }

Vocabulary ==
  { <<"s","e","a","t">>, <<"f","a","n">>, <<"S","p","e","e","d">>,
    <<"O","N">>, <<"t","i","l","t">>,
    <<"h","v","a","c","_","a","c","_","o","n">>,
    <<"x","y","z">>, <<"s","e","a","t","_">>,
    <<"N","O","N","E","X","I","S","T","E","N","T","_","P","R","O","P","E","R","T","Y">> }

RECURSIVE TermQueriesUpTo(_)
TermQueriesUpTo(k) ==
  IF k = 1 THEN Vocabulary
  ELSE LET prev == TermQueriesUpTo(k - 1)
       IN prev \cup { q \o << " " >> \o t : q \in prev, t \in Vocabulary }

QueryAlphabet == { "A", "T", "C", "e", " ", "_" }

RECURSIVE StringsUpTo(_)
StringsUpTo(n) ==
  IF n = 0 THEN { << >> }
  ELSE LET prev == StringsUpTo(n - 1)
       IN prev \cup { Append(s, c) : s \in prev, c \in QueryAlphabet }

Queries == NameQueries \cup TermQueriesUpTo(MaxTerms) \cup StringsUpTo(MaxQueryLen)

\* The orders in which a process may iterate a set of names (the order
\* depends on the hash seed of the process).
IterOrders == { "insertion", "reversed" }

IterOrder(o) == IF o = "insertion" THEN CatalogNames ELSE Reverse(CatalogNames)

\* Queries made while the indexes are being built.
RaceQueries ==
  { <<"S","E","A","T">>,
    <<"h","v","a","c","_","a","c","_","o","n">>,
    <<"f","a","n">>,
    <<"x","y","z">>,
    <<" ">> }

Threads == { "init", "query" }

----------------------------------------------------------------------------
(* scrapers.py: the content cache of VhalDocumentationScraper              *)

_cache_duration == 3600

CONTENT_LIMIT == 5000

\* Mutation of _is_cache_valid: an entry is still valid when exactly the
\* cache duration has elapsed.
_is_cache_valid_inclusive(cache, url, time) ==
  IF url \notin DOMAIN cache THEN FALSE
  ELSE time - cache[url].timestamp <= _cache_duration

\* _is_cache_valid(url) at clock value `time`
_is_cache_valid(cache, url, time) ==
  IF url \notin DOMAIN cache THEN FALSE
  ELSE time - cache[url].timestamp < _cache_duration

\* Mutation of the lookup: it always misses.
_get_cached_content_never(cache, url, time) == None

\* _get_cached_content(url): the content, or None
_get_cached_content(cache, url, time) ==
  IF _is_cache_valid(cache, url, time) THEN cache[url].content ELSE None

\* _cache_content(url, content): the cache after the store
_cache_content(cache, url, content, time) ==
  [u \in DOMAIN cache \cup {url} |->
     IF u = url THEN [content |-> content, timestamp |-> time] ELSE cache[u]]

\* Inputs of the cache: two of the KNOWN_PAGES, two page texts, and the
\* amounts by which the clock advances between two calls.
CacheUrls ==
  { "https://source.android.com/docs/automotive/vhal",
    "https://source.android.com/docs/automotive/vhal/vhal-interface" }

Contents == { "text A", "text B" }

TimeSteps == { 1, _cache_duration - 1 }

MaxTicks == 3

\* Inputs of the fetching operations taken together: one documentation
\* page, and one source file of the default version.
RemoteUrls == { "https://source.android.com/docs/automotive/vhal" }

RemoteKeys == { "vehicle_property_aidl" }

----------------------------------------------------------------------------
(* core/analyzers.py: AndroidSourceCodeAnalyzer                            *)

\* An optional str argument: NoneStr is None, Some(s) is the string s.
NoneStr == << >>

Some(s) == << s >>

\* dict.get(key) on a dict written as a sequence of <<key, value>> pairs;
\* << >> stands for None
DictGet(dict, key) ==
  IF \E i \in 1..Len(dict) : dict[i][1] = key
    THEN dict[CHOOSE i \in 1..Len(dict) : dict[i][1] = key][2]
    ELSE << >>

DictKeys(dict) == { dict[i][1] : i \in 1..Len(dict) }

\* s.replace(old, ""): the occurrences of old are removed from left to right
RECURSIVE RemoveAll(_, _)
RemoveAll(s, old) ==
  IF Len(s) < Len(old) \/ old = << >> THEN s
  ELSE IF SubSeq(s, 1, Len(old)) = old
    THEN RemoveAll(SubSeq(s, Len(old) + 1, Len(s)), old)
    ELSE << Head(s) >> \o RemoveAll(Tail(s), old)

\* s.isdigit()
IsDigit(s) == s # << >> /\ Range(s) \subseteq Digits

SUPPORTED_ANDROID_VERSIONS ==
  << << <<"a","n","d","r","o","i","d","1","3">>,
        <<"a","n","d","r","o","i","d","1","3","-","r","e","l","e","a","s","e">> >>,
     << <<"a","n","d","r","o","i","d","1","4">>,
        <<"a","n","d","r","o","i","d","1","4","-","r","e","l","e","a","s","e">> >>,
     << <<"a","n","d","r","o","i","d","1","5">>,
        <<"a","n","d","r","o","i","d","1","5","-","r","e","l","e","a","s","e">> >>,
     << <<"a","n","d","r","o","i","d","1","6">>,
        <<"a","n","d","r","o","i","d","1","6","-","r","e","l","e","a","s","e">> >>,
     << <<"m","a","i","n">>,
        <<"m","a","i","n">> >>,
     << <<"m","a","s","t","e","r">>,
        <<"m","a","s","t","e","r">> >> >>

DEFAULT_VERSION == <<"a","n","d","r","o","i","d","1","5">>

AndroidPrefix == <<"a","n","d","r","o","i","d">>

ReleaseSuffix == <<"-","r","e","l","e","a","s","e">>

\* Mutation of the branch selection: an unknown version falls back to the
\* development branch instead of the default version's branch.
BranchOfFallbackMain(android_version) ==
  LET given == IF android_version = NoneStr THEN DEFAULT_VERSION
               ELSE android_version[1]
      branch == DictGet(SUPPORTED_ANDROID_VERSIONS, Strip(Lower(given)))
  IN IF branch = << >>
       THEN DictGet(SUPPORTED_ANDROID_VERSIONS, <<"m","a","i","n">>) ELSE branch

\* _get_version_specific_urls, lines 28-42: the branch of a version argument
BranchOf(android_version) ==
  LET given == IF android_version = NoneStr THEN DEFAULT_VERSION
               ELSE android_version[1]
      stripped == Strip(Lower(given))
      version_num == RemoveAll(RemoveAll(stripped, AndroidPrefix), ReleaseSuffix)
      normalized == IF StartsWith(stripped, AndroidPrefix) /\ ~IsDigit(version_num)
                      THEN AndroidPrefix \o version_num
                      ELSE stripped
      branch == DictGet(SUPPORTED_ANDROID_VERSIONS, normalized)
  IN IF branch = << >>
       THEN DictGet(SUPPORTED_ANDROID_VERSIONS, DEFAULT_VERSION)
       ELSE branch

\* A URL f"{base}/{dir}/{name}.{ext}?format=TEXT", kept in its parts;
\* base is the hardware/interfaces or the device/generic/car repository
\* at refs/heads/{branch}.
Url(repo, branch, dir, name, ext) ==
  [repo |-> repo, branch |-> branch, dir |-> dir, name |-> name, ext |-> ext,
   query |-> "?format=TEXT"]

FileKeys ==
  << "vehicle_property_aidl", "vehicle_area_aidl", "vehicle_property_type_aidl",
     "default_hal_impl", "hal_interface", "emulator_hal", "emulator_config" >>

AidlProperty == "automotive/vehicle/aidl_property/android/hardware/automotive/vehicle"

\* the dict returned for the android13-release branch
Android13Urls(branch) ==
  LET hw(dir, name, ext) == Url("platform/hardware/interfaces", branch, dir, name, ext)
      car(dir, name, ext) == Url("device/generic/car", branch, dir, name, ext)
      types == hw("automotive/vehicle/2.0", "types", "hal")
  IN [key \in Range(FileKeys) |->
       CASE key = "vehicle_property_aidl" ->
              << hw(AidlProperty, "VehicleProperty", "aidl"), types >>
         [] key = "vehicle_area_aidl" ->
              << hw(AidlProperty, "VehicleArea", "aidl"), types >>
         [] key = "vehicle_property_type_aidl" ->
              << hw(AidlProperty, "VehiclePropertyType", "aidl"), types >>
         [] key = "default_hal_impl" ->
              << hw("automotive/vehicle/aidl/impl/default_config/config",
                    "DefaultProperties", "json"),
                 hw("automotive/vehicle/2.0/default/impl/vhal_v2_0",
                    "DefaultConfig", "h") >>
         [] key = "hal_interface" ->
              << hw("automotive/vehicle/aidl/android/hardware/automotive/vehicle",
                    "IVehicle", "aidl"),
                 hw("automotive/vehicle/2.0", "IVehicle", "hal") >>
         [] key = "emulator_hal" ->
              << car("emulator/vhal", "VehicleHalServer", "cpp"),
                 car("emulator/vhal", "VehicleEmulator", "cpp") >>
         [] key = "emulator_config" ->
              << car("emulator/vhal", "DefaultConfig", "h") >>]

\* the dict returned for every other branch
ModernUrls(branch) ==
  LET hw(dir, name, ext) == Url("platform/hardware/interfaces", branch, dir, name, ext)
      car(dir, name, ext) == Url("device/generic/car", branch, dir, name, ext)
  IN [key \in Range(FileKeys) |->
       CASE key = "vehicle_property_aidl" ->
              << hw(AidlProperty, "VehicleProperty", "aidl") >>
         [] key = "vehicle_area_aidl" ->
              << hw(AidlProperty, "VehicleArea", "aidl") >>
         [] key = "vehicle_property_type_aidl" ->
              << hw(AidlProperty, "VehiclePropertyType", "aidl") >>
         [] key = "default_hal_impl" ->
              << hw("automotive/vehicle/aidl/impl/default_config/config",
                    "DefaultProperties", "json"),
                 hw("automotive/vehicle/aidl/impl/vhal/src", "DefaultVehicleHal", "cpp"),
                 hw("automotive/vehicle/aidl/impl/fake_impl/userhal/src",
                    "FakeUserHal", "cpp") >>
         [] key = "hal_interface" ->
              << hw("automotive/vehicle/aidl/android/hardware/automotive/vehicle",
                    "IVehicle", "aidl") >>
         [] key = "emulator_hal" ->
              << car("emulator/vhal", "VehicleHalServer", "cpp"),
                 car("emulator/vhal", "VehicleEmulator", "cpp") >>
         [] key = "emulator_config" ->
              << car("emulator/vhal", "DefaultConfig", "h") >>]

\* _get_version_specific_urls(android_version)
_get_version_specific_urls(android_version) ==
  LET branch == BranchOf(android_version)
  IN IF branch = <<"a","n","d","r","o","i","d","1","3","-","r","e","l","e","a","s","e">>
       THEN Android13Urls(branch)
       ELSE ModernUrls(branch)

\* version_urls.get(file_key); << >> stands for None
UrlsFor(android_version, file_key) ==
  LET version_urls == _get_version_specific_urls(android_version)
  IN IF file_key \in DOMAIN version_urls THEN version_urls[file_key] ELSE << >>

\* analyze_property_implementation, lines 188-199: the version it passes on
RECURSIVE FirstEmbedded(_, _)
FirstEmbedded(stripped, i) ==
  IF i > Len(SUPPORTED_ANDROID_VERSIONS) THEN DEFAULT_VERSION
  ELSE LET supported_version == SUPPORTED_ANDROID_VERSIONS[i][1]
       IN IF Contains(stripped, RemoveAll(supported_version, AndroidPrefix))
            THEN supported_version
            ELSE FirstEmbedded(stripped, i + 1)

AnalyzeVersion(android_version) ==
  IF android_version = NoneStr \/ android_version = Some(<< >>) THEN android_version
  ELSE LET stripped == Strip(Lower(android_version[1]))
       IN IF stripped \in DictKeys(SUPPORTED_ANDROID_VERSIONS)
            THEN Some(stripped)
            ELSE Some(FirstEmbedded(stripped, 1))

\* SessionManager._initialize: Retry(total=2, status_forcelist=[...])
RetryTotal == 2

status_forcelist == { 429, 500, 502, 503, 504 }

\* What a server may answer to one GET of url: 200 with the file in
\* base64 or as plain text, 404, 503, or nothing before the timeout.
FileText(url) == [file |-> url.name, ext |-> url.ext, lines |-> 3]

Answers(url) ==
  { [kind |-> "response", status |-> 200, body |-> [b64 |-> FileText(url)]],
    [kind |-> "response", status |-> 200, body |-> [raw |-> FileText(url)]],
    [kind |-> "response", status |-> 404],
    [kind |-> "response", status |-> 503],
    [kind |-> "timeout"] }

\* the retries the mounted adapter makes: none for a requests.Session()
\* created in fetch_source_file, RetryTotal for the shared session
RetriesOf(session) == IF session = "shared" THEN RetryTotal ELSE 0

\* the adapter sends the request again
IsRetried(session, answer, attempt) ==
  /\ attempt <= RetriesOf(session)
  /\ \/ answer.kind = "timeout"
     \/ answer.status \in status_forcelist

\* session.get(url) returns and raise_for_status() passes
IsSuccess(answer) == answer.kind = "response" /\ answer.status = 200

\* base64.b64decode(response.text).decode('utf-8'), else response.text
Decode(body) == IF "b64" \in DOMAIN body THEN body.b64 ELSE body.raw

Language(ext) ==
  IF ext \in { "cpp", "cc", "h" } THEN "cpp"
  ELSE IF ext = "aidl" THEN "aidl"
  ELSE "text"

\* url.replace('?format=TEXT', '')
DisplayUrl(url) == [url EXCEPT !.query = ""]

NoFile == [none |-> TRUE]

SourceCodeFile(filename, path, url, content, language, purpose, line_count) ==
  [filename |-> filename, path |-> path, url |-> url, content |-> content,
   language |-> language, purpose |-> purpose, line_count |-> line_count]

\* the object returned for the candidate that answered
FetchedFile(url, answer, description) ==
  LET decoded_content == Decode(answer.body)
  IN SourceCodeFile(<< url.name, url.ext >>,
                    << url.repo, url.branch >>,
                    DisplayUrl(url),
                    decoded_content,
                    Language(url.ext),
                    description,
                    decoded_content.lines)

\* Mutation of the error result: it is flagged as plain text.
ErrorFileAsText(file_key, urls, last_error, description) ==
  SourceCodeFile(<< "Error fetching", file_key >>, "N/A", urls[1],
                 [count |-> Len(urls), last_error |-> last_error],
                 "text", description, 0)

\* the object returned when every candidate failed
ErrorFile(file_key, urls, last_error, description) ==
  SourceCodeFile(<< "Error fetching", file_key >>, "N/A", urls[1],
                 [count |-> Len(urls), last_error |-> last_error],
                 "error", description, 0)

\* Mutation of the except branch: the loop stops at the first failed
\* candidate.
NextCandidateNone(urls, url_i) == 0

\* the candidate tried after candidate url_i failed; 0 when none is left
NextCandidate(urls, url_i) == IF url_i < Len(urls) THEN url_i + 1 ELSE 0

\* the status a request is logged with; 0 when no response arrived
StatusOf(answer) == IF answer.kind = "timeout" THEN 0 ELSE answer.status

\* Mutation of the except branch: every failure is recorded as a timeout.
ErrorOfTimeout(session, answer) == "Timeout"

\* the exception session.get / raise_for_status raises for a failed request
ErrorOf(session, answer) ==
  IF answer.kind = "timeout" THEN "Timeout"
  ELSE IF session = "shared" /\ answer.status \in status_forcelist THEN "RetryError"
  ELSE "HTTPError"

\* Mutation of the loop: a successful answer does not end it while a
\* candidate is left.
OutcomeNoReturn(session, answer, attempt, urls, url_i) ==
  IF IsRetried(session, answer, attempt) THEN "retry"
  ELSE IF NextCandidate(urls, url_i) # 0 THEN "next_url"
  ELSE IF IsSuccess(answer) THEN "return_file"
  ELSE "return_error"

\* What one answer does to the loop of fetch_source_file: the adapter
\* retries, the file is returned, the except branch moves to the next
\* candidate, or the loop ends and the error object is returned.
Outcome(session, answer, attempt, urls, url_i) ==
  IF IsRetried(session, answer, attempt) THEN "retry"
  ELSE IF IsSuccess(answer) THEN "return_file"
  ELSE IF NextCandidate(urls, url_i) # 0 THEN "next_url"
  ELSE "return_error"

\* Inputs of the locator and the fetcher.
MaxVersionNumber == 16

DigitChars == << "0","1","2","3","4","5","6","7","8","9" >>

Decimal(n) ==
  IF n < 10 THEN << DigitChars[n + 1] >>
  ELSE << DigitChars[(n \div 10) + 1], DigitChars[(n % 10) + 1] >>

VersionPrefixes ==
  { << >>, <<"v">>, <<"a","n","d","r","o","i","d">>, <<"A","n","d","r","o","i","d">>, <<" ","a","n","d","r","o","i","d">>, <<"a","n","d","r","o","i","d","-">> }

VersionNumbers == { << >> } \cup { Decimal(n) : n \in 9..MaxVersionNumber }

VersionSuffixes == { << >>, <<"-","r","e","l","e","a","s","e">>, <<" ">> }

VersionInputs ==
  { Some(p \o n \o s) : p \in VersionPrefixes, n \in VersionNumbers,
                        s \in VersionSuffixes }
    \cup { Some(<<"m","a","i","n">>), Some(<<"m","a","s","t","e","r">>), Some(<<"M","a","i","n"," ">>), Some(<<"m","a","i","n","l","i","n","e">>) }
    \cup { NoneStr }

FetchVersions == { NoneStr, Some(<<"v","9">>), Some(<<"a","n","d","r","o","i","d","1","3">>) }

FetchKeys == Range(FileKeys) \cup { "unknown_key" }

Descriptions == { "Main VehicleProperty AIDL definition" }

----------------------------------------------------------------------------
(* utils/summarizers.py: VhalSummarizer, on the lengths of the strings.    *)
(* A question is its length and whether extract_keywords finds a keyword   *)
(* in it; a document is the length of its stripped text, the number of     *)
(* blanks strip() removes from it, and the score score_content gives its   *)
(* stripped text for the question's keywords.                              *)

MAX_SECTIONS == 3

SECTION_LIMIT == 2000

SUMMARY_LIMIT == 4000

\* len(section_clean) < 50: shorter sections are skipped
MinSectionLen == 50

\* Mutation of the message for an empty document list: only the question.
NoContentTextNone == Len(<< >>)

\* len of "No documentation content available for: ''"
NoContentText == 42

\* len of "vHAL Summary for: ''\n", the first part of a summary
HeaderText == 21

\* len of "vHAL Summary for: ''\n\n", before the fallback text
FallbackText == 22

\* len of "No specific information found for ''. General vHAL overview:\n\n"
GeneralText == 62

\* len of the "..." that ends the general overview
Ellipsis == 3

\* len of "\n" + "=" * 50 + "\n"
SeparatorText == 52

\* len of "\n\n[Summary truncated for length]"
TruncationMarker == 32

Min(a, b) == IF a < b THEN a ELSE b

Max(a, b) == IF a < b THEN b ELSE a

\* len(section) and len(section.strip())
RawLen(doc) == doc.pad + doc.clean

CleanLen(doc) == doc.clean

\* len(s[:limit])
Sliced(len, limit) == Min(len, limit)

RECURSIVE Sum(_)
Sum(lens) == IF lens = << >> THEN 0 ELSE Head(lens) + Sum(Tail(lens))

\* len("\n".join(parts)) for the lengths of the parts
JoinedLen(parts) == Sum(parts) + (Len(parts) - 1)

\* the (score, truncated_section) pairs of the sections that are kept
RECURSIVE ScoredSections(_, _)
ScoredSections(question, content_sections) ==
  IF content_sections = << >> THEN << >>
  ELSE LET section == Head(content_sections)
           rest == ScoredSections(question, Tail(content_sections))
           score == IF question.keywords THEN section.score ELSE 0
       IN IF CleanLen(section) = 0 \/ CleanLen(section) < MinSectionLen
            THEN rest
            ELSE IF score > 0
              THEN << [score |-> score,
                       len |-> Sliced(CleanLen(section), SECTION_LIMIT)] >> \o rest
              ELSE rest

\* Mutation of the sort: a section goes before the sections of its score.
InsertByScoreTiesReversed(sorted, x) ==
  LET Before(y) == y.score > x.score
      After(y) == y.score <= x.score
  IN SelectSeq(sorted, Before) \o << x >> \o SelectSeq(sorted, After)

\* list.sort(key=score, reverse=True): stable, highest score first
RECURSIVE InsertByScore(_, _)
InsertByScore(sorted, x) ==
  IF sorted = << >> THEN << x >>
  ELSE IF Head(sorted).score >= x.score
    THEN << Head(sorted) >> \o InsertByScore(Tail(sorted), x)
    ELSE << x >> \o sorted

RECURSIVE SortByScore(_, _)
SortByScore(sorted, rest) ==
  IF rest = << >> THEN sorted
  ELSE SortByScore(InsertByScore(sorted, Head(rest)), Tail(rest))

\* len(f"\n{section}\n" + "=" * 50 + "\n")
SeparatedLen(section) == 1 + section.len + 1 + 50 + 1

\* the loop over top_sections: summary_parts grows until a section would
\* take total_length over SUMMARY_LIMIT
RECURSIVE AppendSections(_, _, _)
AppendSections(top_sections, summary_parts, total_length) ==
  IF top_sections = << >> THEN summary_parts
  ELSE LET section == Head(top_sections)
       IN IF total_length + SeparatedLen(section) > SUMMARY_LIMIT
            THEN summary_parts
            ELSE AppendSections(Tail(top_sections),
                                summary_parts \o << section.len, SeparatorText >>,
                                total_length + SeparatedLen(section))

\* max(content_sections, key=len)
RECURSIVE LongestRaw(_)
LongestRaw(content_sections) ==
  IF content_sections = << >> THEN 0
  ELSE Max(RawLen(Head(content_sections)), LongestRaw(Tail(content_sections)))

summarize_documentation(question, content_sections) ==
  IF content_sections = << >>
    THEN [kind |-> "no_content", sections |-> 0, truncated |-> FALSE,
          len |-> NoContentText + question.len]
  ELSE IF ~question.keywords
    THEN [kind |-> "fallback", sections |-> 1, truncated |-> FALSE,
          len |-> FallbackText + question.len
                    + Sliced(RawLen(content_sections[1]), SECTION_LIMIT)]
  ELSE LET scored_sections == ScoredSections(question, content_sections)
       IN IF scored_sections = << >>
            THEN [kind |-> "general", sections |-> 1, truncated |-> FALSE,
                  len |-> GeneralText + question.len
                            + Sliced(LongestRaw(content_sections), SECTION_LIMIT)
                            + Ellipsis]
            ELSE LET sorted == SortByScore(<< >>, scored_sections)
                     top_sections == SubSeq(sorted, 1, Min(Len(sorted), MAX_SECTIONS))
                     header == HeaderText + question.len
                     summary_parts == AppendSections(top_sections, << header >>, header)
                     joined == JoinedLen(summary_parts)
                 IN IF joined > SUMMARY_LIMIT
                      THEN [kind |-> "summary",
                            sections |-> (Len(summary_parts) - 1) \div 2,
                            included |-> SubSeq(top_sections, 1,
                                                (Len(summary_parts) - 1) \div 2),
                            truncated |-> TRUE,
                            len |-> Sliced(joined, SUMMARY_LIMIT - 30)
                                      + TruncationMarker]
                      ELSE [kind |-> "summary",
                            sections |-> (Len(summary_parts) - 1) \div 2,
                            included |-> SubSeq(top_sections, 1,
                                                (Len(summary_parts) - 1) \div 2),
                            truncated |-> FALSE,
                            len |-> joined]

----------------------------------------------------------------------------
(* core/source_validator.py: VhalSourceValidator                           *)

\* What a server may answer to HEAD url: 200 with or without a
\* Last-Modified header, another status, or no response
\* (requests.exceptions.RequestException).
HeadAnswers ==
  { [kind |-> "response", status |-> 200, last_modified |-> TRUE],
    [kind |-> "response", status |-> 200, last_modified |-> FALSE],
    [kind |-> "response", status |-> 404, last_modified |-> FALSE],
    [kind |-> "response", status |-> 503, last_modified |-> TRUE],
    [kind |-> "exception"] }

\* status_code 0 stands for None
SourceValidation(url, is_accessible, status_code, last_modified, error_message) ==
  [url |-> url, is_accessible |-> is_accessible, status_code |-> status_code,
   last_modified |-> last_modified, error_message |-> error_message]

\* validate_source(url): the result of one HEAD request
validate_source(url, answer) ==
  IF answer.kind = "response"
    THEN SourceValidation(url, answer.status = 200, answer.status,
                          answer.last_modified,
                          IF answer.status = 200 THEN "None" ELSE "HTTP status")
    ELSE SourceValidation(url, FALSE, 0, FALSE, "RequestException")

\* A float kept exact: the fraction num / den.
Score(num, den) == [num |-> num, den |-> den]

\* sum(1 for v in validations if pred(v))
CountIf(validations, pred(_)) ==
  Cardinality({ i \in 1..Len(validations) : pred(validations[i]) })

AndroidCom == <<"a","n","d","r","o","i","d",".","c","o","m">>

\* Mutation of the bonus: two points per official source, without the cap.
BonusUncapped(recent_sources) == recent_sources * 2

\* lines 133-134: the bonus for official Android sources
Bonus(recent_sources) ==
  IF recent_sources > 0
    THEN (IF recent_sources * 2 < 10 THEN recent_sources * 2 ELSE 10)
    ELSE 0

calculate_confidence_score(validations) ==
  IF validations = << >> THEN Score(0, 1)
  ELSE LET IsAccessible(v) == v.is_accessible
           IsRecent(v) == v.is_accessible /\ v.last_modified
                            /\ Contains(v.url, AndroidCom)
           accessible_count == CountIf(validations, IsAccessible)
           total_count == Len(validations)
           recent_sources == CountIf(validations, IsRecent)
           base_score == 100 * accessible_count + Bonus(recent_sources) * total_count
       IN IF base_score > 100 * total_count
            THEN Score(100 * total_count, total_count)
            ELSE Score(base_score, total_count)

\* s.replace(old, new)
RECURSIVE ReplaceAll(_, _, _)
ReplaceAll(s, old, new) ==
  IF Len(s) < Len(old) \/ old = << >> THEN s
  ELSE IF SubSeq(s, 1, Len(old)) = old
    THEN new \o ReplaceAll(SubSeq(s, Len(old) + 1, Len(s)), old, new)
    ELSE << Head(s) >> \o ReplaceAll(Tail(s), old, new)

\* the text before the first "?" or "#"
RECURSIVE BeforeQuery(_)
BeforeQuery(s) ==
  IF s = << >> \/ Head(s) \in { "?", "#" } THEN << >>
  ELSE << Head(s) >> \o BeforeQuery(Tail(s))

\* urlparse(url).path.split('/')[-1] for a URL scheme://host/path
LastPathSegment(url) ==
  LET parts == SplitOn(BeforeQuery(url), "/")
  IN IF Len(parts) > 3 THEN parts[Len(parts)] ELSE << >>

SourceAndroidCom == <<"s","o","u","r","c","e",".","a","n","d","r","o","i","d",".","c","o","m">>

GooglesourceCom == <<"g","o","o","g","l","e","s","o","u","r","c","e",".","c","o","m">>

\* the suggestion made for one URL, lines 147-152
Suggestion(url) ==
  IF Contains(url, SourceAndroidCom)
    THEN [try |-> "Try Android Code Search", q |-> LastPathSegment(url)]
  ELSE IF Contains(url, GooglesourceCom)
    THEN [try |-> "Check if URL moved",
          q |-> ReplaceAll(url, <<"/","+","/">>, <<"/","+","/","r","e","f","s","/","h","e","a","d","s","/","m","a","i","n","/">>)]
  ELSE [try |-> "Search for alternative documentation for",
        q |-> LastPathSegment(url)]

suggest_alternatives_for_failed_sources(failed_validations) ==
  [i \in 1..Len(failed_validations) |-> Suggestion(failed_validations[i].url)]

\* Mutation of the caller's filter: every validation is passed on.
FailedValidationsAll(source_validations) == source_validations

\* server.py line 560: [v for v in source_validations if not v.is_accessible]
FailedValidations(source_validations) ==
  LET Failed(v) == ~v.is_accessible
  IN SelectSeq(source_validations, Failed)

----------------------------------------------------------------------------
(* server.py: the tool functions, as the calls each body makes in order    *)
(* and the handler around the body.                                        *)

Tools ==
  { "summarize_vhal", "lookup_android_source_code", "discover_related_properties",
    "analyze_vhal_implementation", "validate_vhal_sources_and_enhance_summary",
    "validate_vhal_property_request" }

\* the calls of each body between try: and the last return
ToolBody(tool) ==
  CASE tool = "summarize_vhal" ->
         << "VhalDocumentationScraper._session", "discover_pages",
            "scrape_pages_parallel", "summarize_documentation" >>
    [] tool = "lookup_android_source_code" ->
         << "search_properties", "get_source_locations", "generate_search_url",
            "join" >>
    [] tool = "discover_related_properties" ->
         << "analyze_property_relationships", "join" >>
    [] tool = "analyze_vhal_implementation" ->
         << "AndroidSourceCodeAnalyzer._session", "analyze_property_implementation",
            "join" >>
    [] tool = "validate_vhal_sources_and_enhance_summary" ->
         << "VhalDocumentationScraper._session", "discover_pages",
            "scrape_pages_parallel", "summarize_documentation",
            "validate_sources_parallel", "calculate_confidence_score",
            "suggest_alternatives_for_failed_sources", "format_enhanced_summary" >>
    [] tool = "validate_vhal_property_request" ->
         << "validate_property_request", "format_validation_result" >>

\* the exception classes a call can end with; all derive from Exception
ExceptionClasses ==
  { "RequestException", "TimeoutError", "AttributeError", "TypeError",
    "ValueError", "KeyError" }

\* what a call of the body can end with: a value, an empty list of
\* sections, or an exception.  Reading _session of the analyzer class
\* raises AttributeError while nothing has set the attribute.
CallOutcomes(call, analyzer_attr) ==
  CASE call = "AndroidSourceCodeAnalyzer._session" ->
         IF analyzer_attr = "unset" THEN { "AttributeError" } ELSE { "value" }
    [] call = "scrape_pages_parallel" -> { "value", "empty", "TimeoutError" }
    [] call = "validate_sources_parallel" -> { "value", "TimeoutError", "ValueError" }
    [] call = "analyze_property_implementation" ->
         { "value", "TimeoutError", "AttributeError" }
    [] call = "summarize_documentation" -> { "value", "AttributeError" }
    [] call = "search_properties" -> { "value", "TypeError", "AttributeError" }
    [] call = "analyze_property_relationships" ->
         { "value", "AttributeError", "KeyError" }
    [] call = "validate_property_request" -> { "value", "AttributeError", "TypeError" }
    [] OTHER -> { "value" }

\* Mutation of the handler: except requests.exceptions.RequestException.
CatchesRequestErrors(exception) == exception = "RequestException"

\* except Exception as e
Catches(exception) == exception \in ExceptionClasses

NoResult == [type |-> "None"]

StrResult(text) == [type |-> "str", text |-> text]

\* Inputs of the summarizer.
MaxDocs == 2

MaxScore == 2

\* the length of a second section that, after a full first section and the
\* header of a four-character question, brings total_length to SUMMARY_LIMIT
FillingLen == SUMMARY_LIMIT - (HeaderText + 4) - (SECTION_LIMIT + 53) - 53

CleanLens == { 0, MinSectionLen - 1, MinSectionLen, FillingLen, SECTION_LIMIT,
               SECTION_LIMIT + 1 }

Pads == { 0, 1 }

\* a score above 0 needs a keyword, three characters or more, in the text
Documents ==
  { doc \in [clean : CleanLens, pad : Pads, score : 0..MaxScore] :
      doc.score > 0 => doc.clean >= 3 }

\* the longest list of documents that is ranked
MaxRanked == 4

\* documents of two lengths, long enough for a section, for the ranking
RankDocuments ==
  [clean : { MinSectionLen, MinSectionLen + 1 }, pad : { 0 },
   score : 0..MaxScore]

RECURSIVE ListsUpTo(_, _)
ListsUpTo(S, n) ==
  IF n = 0 THEN { << >> }
  ELSE LET shorter == ListsUpTo(S, n - 1)
       IN shorter \cup { Append(l, x) : l \in { s \in shorter : Len(s) = n - 1 },
                                        x \in S }

\* the question of the ranked lists: "seat"
RankQuestion == [len |-> 4, keywords |-> TRUE]

\* "", "?!", "seat", and a question as long as the summary budget
Questions ==
  { [len |-> 0, keywords |-> FALSE], [len |-> 2, keywords |-> FALSE],
    [len |-> 4, keywords |-> TRUE], [len |-> SUMMARY_LIMIT, keywords |-> TRUE] }

\* Inputs of the validator.
DocsUrl == <<"h","t","t","p","s",":","/","/","s","o","u","r","c","e",".","a","n","d","r","o","i","d",".","c","o","m","/","d","o","c","s","/","v","h","a","l">>

GitilesUrl == <<"h","t","t","p","s",":","/","/","a","n","d","r","o","i","d",".","g","o","o","g","l","e","s","o","u","r","c","e",".","c","o","m","/","c","a","r","/","+","/","R","E","A","D","M","E",".","m","d">>

SearchUrl == <<"h","t","t","p","s",":","/","/","c","s",".","a","n","d","r","o","i","d",".","c","o","m","/","s","e","a","r","c","h">>

ForeignUrl == <<"h","t","t","p","s",":","/","/","e","x","a","m","p","l","e",".","c","o","m","/","t","e","s","t">>

ValidationUrls == { DocsUrl, GitilesUrl, SearchUrl, ForeignUrl }

Probes == [url : ValidationUrls, answer : HeadAnswers]

MaxProbes == 2

MaxSources == 10

Repeat(x, n) == [i \in 1..n |-> x]

\* lists of a official sources that answer 200 with Last-Modified, b other
\* sources that answer 200 and c sources that do not answer
SourceMixes ==
  { Repeat([url |-> DocsUrl,
            answer |-> [kind |-> "response", status |-> 200, last_modified |-> TRUE]], a)
      \o Repeat([url |-> ForeignUrl,
                 answer |-> [kind |-> "response", status |-> 200,
                             last_modified |-> FALSE]], b)
      \o Repeat([url |-> GitilesUrl, answer |-> [kind |-> "exception"]], c) :
      a \in 0..MaxSources, b \in 0..1, c \in 0..2 }

ProbeLists == ListsUpTo(Probes, MaxProbes) \cup SourceMixes

----------------------------------------------------------------------------
(* The three batch operations: a ThreadPoolExecutor in a with block and a  *)
(* loop over as_completed(..., timeout=...).                               *)

BatchOps ==
  { "scrape_pages_parallel", "analyze_property_implementation",
    "validate_sources_parallel" }

\* files_to_fetch of analyze_property_implementation, after the sort
files_to_fetch ==
  << [key |-> "vehicle_property_aidl", priority |-> 1],
     [key |-> "default_hal_impl", priority |-> 1],
     [key |-> "vehicle_area_aidl", priority |-> 2],
     [key |-> "hal_interface", priority |-> 2],
     [key |-> "emulator_hal", priority |-> 3],
     [key |-> "emulator_config", priority |-> 3] >>

Priority(key) ==
  files_to_fetch[CHOOSE i \in 1..Len(files_to_fetch) :
                   files_to_fetch[i].key = key].priority

\* [f for f in files_to_fetch if f[2] == 1]
high_priority_files ==
  LET High(f) == f.priority = 1 IN SelectSeq(files_to_fetch, High)

\* Mutation of the low-priority filter: f[2] > 0.
low_priority_files_all == files_to_fetch

\* [f for f in files_to_fetch if f[2] > 1]
low_priority_files ==
  LET Low(f) == f.priority > 1 IN SelectSeq(files_to_fetch, Low)

\* max_workers of the pool each operation creates for n tasks
MaxWorkers(batch_op, n) ==
  CASE batch_op = "scrape_pages_parallel" -> 4
    [] batch_op = "analyze_property_implementation" -> 3
    [] OTHER -> IF n < 3 THEN n ELSE 3

\* how a task can end: scrape_page returns the content or None;
\* fetch_source_file and validate_source always return an object
Outcomes(batch_op) ==
  IF batch_op = "scrape_pages_parallel" THEN { "ok", "failed" } ELSE { "ok" }

\* what the loop body does with the value of a finished future: the
\* scraper keeps truthy content, the analyzer a truthy file object (the
\* error object is one), the validator every validation
Appends(batch_op, outcome) ==
  batch_op = "scrape_pages_parallel" => outcome = "ok"

\* the entry of the result list for task t
PoolItem(t) == [from |-> "pool", id |-> t]

\* `with ThreadPoolExecutor(...)`: __exit__ is shutdown(wait=True), left
\* only when no submitted task is queued or running
Unfinished(states) ==
  { t \in DOMAIN states : states[t] \in { "queued", "running" } }

ExitMayLeave(states) == Unfinished(states) = {}

\* an exception that leaves the with block propagates out of the function
Propagates(exc) == exc # None

\* Largest number of URLs handed to the scraper or the validator.
MaxBatch == 3

\* Largest number of URLs of a scrape that are answered from the cache.
MaxCached == 1

BatchSizes(batch_op) ==
  IF batch_op = "analyze_property_implementation"
    THEN { Len(low_priority_files) } ELSE 1..MaxBatch

CachedCounts(batch_op) ==
  IF batch_op = "scrape_pages_parallel" THEN 0..MaxCached ELSE { 0 }

----------------------------------------------------------------------------
(* State.                                                                  *)

VARIABLES
  init_thread,           \* the start-up thread: "pending" or "done"
  _keyword_index,        \* VhalPropertyDatabase._keyword_index
  _category_index,       \* VhalPropertyDatabase._category_index
  _exact_match_index,    \* VhalPropertyDatabase._exact_match_index
  _partial_match_index,  \* VhalPropertyDatabase._partial_match_index
  set_order,             \* the order in which this process iterates sets of names
  keyword,               \* argument of the search / lookup call
  result,                \* list returned by search_properties
  lookup_output,         \* section headings returned by lookup_android_source_code
  _content_cache,        \* VhalDocumentationScraper._content_cache
  now,                   \* time.time()
  ticks,                 \* how often the clock has advanced
  cache_url,             \* argument of the last cache / scrape call
  cached_content,        \* value returned by the last _get_cached_content / scrape_page
  scrape_request,        \* the last scrape_page call sent a GET
  cache_calls,           \* the cache calls the fetching operations have made
  analyzer_session,      \* AndroidSourceCodeAnalyzer._session: "unset", "plain" or "shared"
  fetch_pc,              \* fetch_source_file: "idle", "requesting" or "returned"
  session,               \* the local variable session of fetch_source_file
  file_key,              \* argument of fetch_source_file / the locator
  description,           \* argument of fetch_source_file
  android_version,       \* argument of fetch_source_file / the locator
  urls,                  \* the candidate list selected for file_key
  url_i,                 \* index of the candidate being requested
  attempt,               \* number of the request to that candidate
  last_error,            \* the local variable last_error
  requests,              \* the requests sent so far: candidate and status answered
  fetched,               \* value returned by fetch_source_file
  question,              \* argument of summarize_documentation
  content_sections,      \* argument of summarize_documentation
  summary,               \* string returned by summarize_documentation
  probes,                \* the URLs to validate and what each answers to HEAD
  validations,           \* list returned by validate_sources_parallel
  confidence_score,      \* value returned by calculate_confidence_score
  suggestions,           \* list returned by suggest_alternatives_for_failed_sources
  tool,                  \* the tool function the host has called
  tool_pc,               \* "idle", "running", "returned" or "raised"
  tool_step,             \* index of the next call of the tool's body
  tool_result,           \* value the tool has returned to the host
  tool_calls,            \* number of tool calls the host has made
  build_pc,              \* where each thread is in _build_indexes / search_properties
  fill_next,             \* the category each thread's loop is about to index
  constructions,         \* how often the None test of _build_indexes has passed
  query_outcome,         \* what the concurrent query did, and on which indexes
  memo,                  \* the entries of search_properties' lru_cache
  batch,                 \* the batch operation that was called
  batch_pc,              \* "idle", "high", "pool", "exiting", "returned" or "raised"
  high_i,                \* index of the high-priority file being fetched
  high_busy,             \* the synchronous fetch of that file is under way
  max_workers,           \* size of the pool
  tasks,                 \* state of each submitted task
  collected,             \* the tasks as_completed has yielded
  gathered,              \* the list of results of the operation
  deadline,              \* the timeout of as_completed has expired
  pending_exc,           \* the exception leaving the with block
  waited_for,            \* tasks that finished while __exit__ was waiting
  fetch_log,             \* starts and finishes of the analyzer's fetches
  batch_result,          \* what the operation returned or raised
  op                     \* the operation that ran last

indexVars == << _keyword_index, _category_index, _exact_match_index,
                _partial_match_index >>
searchVars == << set_order, keyword, result, lookup_output >>
cacheVars == << _content_cache, now, ticks, cache_url, cached_content,
               scrape_request, cache_calls >>
fetchVars == << fetch_pc, session, file_key, description, android_version, urls,
               url_i, attempt, last_error, requests, fetched >>
summVars == << question, content_sections, summary >>
validVars == << probes, validations, confidence_score, suggestions >>
toolVars == << tool, tool_pc, tool_step, tool_result, tool_calls >>
raceVars == << build_pc, fill_next, constructions, query_outcome, memo >>
poolVars == << batch, batch_pc, high_i, high_busy, max_workers, tasks, collected,
              gathered, deadline, pending_exc, waited_for, fetch_log,
              batch_result >>
\* the groups each component leaves alone
notValid == << toolVars, raceVars, poolVars >>
notTools == << validVars, raceVars, poolVars >>
notRace == << validVars, toolVars, poolVars >>
notPool == << validVars, toolVars, raceVars >>
restVars == << validVars, toolVars, raceVars, poolVars >>
vars == << init_thread, indexVars, searchVars, cacheVars, analyzer_session,
           fetchVars, summVars, restVars, op >>

Dict(f) == [none |-> FALSE, d |-> f]
NoDict == [none |-> TRUE]

\* the class attributes of VhalPropertyDatabase before the first use
InitIndexes ==
  /\ _keyword_index = NoDict
  /\ _category_index = NoDict
  /\ _exact_match_index = NoDict
  /\ _partial_match_index = NoDict

\* no search has been asked for
IdleSearch ==
  /\ set_order = "insertion"
  /\ keyword = << >>
  /\ result = << >>
  /\ lookup_output = << >>

\* the class attributes of VhalDocumentationScraper and the clock
InitCache ==
  /\ _content_cache = << >>
  /\ now = 0
  /\ ticks = 0
  /\ cache_url = ""
  /\ cached_content = None
  /\ scrape_request = FALSE
  /\ cache_calls = {}

\* fetch_source_file has not been called
IdleFetch ==
  /\ fetch_pc = "idle"
  /\ session = "unset"
  /\ file_key = ""
  /\ description = ""
  /\ android_version = NoneStr
  /\ urls = << >>
  /\ url_i = 0
  /\ attempt = 0
  /\ last_error = None
  /\ requests = << >>
  /\ fetched = NoFile

\* summarize_documentation has not been called
IdleSumm ==
  /\ question = [len |-> 0, keywords |-> FALSE]
  /\ content_sections = << >>
  /\ summary = [len |-> 0]

\* nothing has been validated
IdleValid ==
  /\ probes = << >>
  /\ validations = << >>
  /\ confidence_score = Score(0, 1)
  /\ suggestions = << >>

\* the host has called no tool
IdleTools ==
  /\ tool = ""
  /\ tool_pc = "idle"
  /\ tool_step = 0
  /\ tool_result = NoResult
  /\ tool_calls = 0

\* the components outside the search, the cache, the fetcher and the
\* summarizer are at rest
\* no thread has entered _build_indexes step by step
IdleRace ==
  /\ build_pc = [t \in Threads |-> "check"]
  /\ fill_next = [t \in Threads |-> 0]
  /\ constructions = 0
  /\ query_outcome = [kind |-> "none"]
  /\ memo = << >>

\* no batch operation has been called
IdlePool ==
  /\ batch = ""
  /\ batch_pc = "idle"
  /\ high_i = 0
  /\ high_busy = FALSE
  /\ max_workers = 0
  /\ tasks = << >>
  /\ collected = {}
  /\ gathered = << >>
  /\ deadline = FALSE
  /\ pending_exc = None
  /\ waited_for = {}
  /\ fetch_log = << >>
  /\ batch_result = NoResult

IdleRest ==
  /\ IdleValid
  /\ IdleTools
  /\ IdleRace
  /\ IdlePool

----------------------------------------------------------------------------
(* The search: index construction, search_properties and the lookup tool.  *)

\* A process with a query about to be made.
InitSearch ==
  /\ init_thread = "pending"
  /\ InitIndexes
  /\ set_order \in IterOrders
  /\ keyword \in Queries
  /\ result = << >>
  /\ lookup_output = << >>
  /\ InitCache
  /\ analyzer_session = "unset"
  /\ IdleFetch
  /\ IdleSumm
  /\ IdleRest
  /\ op = "init"

\* _build_indexes(): builds the four indexes unless _keyword_index is set
_build_indexes ==
  IF _keyword_index # NoDict
    THEN UNCHANGED indexVars
    ELSE /\ _keyword_index' = Dict(BuiltKeywordIndex)
         /\ _category_index' = Dict(BuiltCategoryIndex)
         /\ _exact_match_index' = Dict(BuiltExactMatchIndex)
         /\ _partial_match_index' = Dict(BuiltPartialMatchIndex)

\* the indexes a query reads after its call of _build_indexes
Indexes ==
  [keyword |-> _keyword_index'.d, category |-> _category_index'.d,
   exact |-> _exact_match_index'.d, partial |-> _partial_match_index'.d]

\* _initialize_components(), the start-up thread: pre-builds the indexes
\* and installs the shared session on the analyzer
InitializeComponents ==
  /\ init_thread = "pending"
  /\ init_thread' = "done"
  /\ _build_indexes
  /\ analyzer_session' = "shared"
  /\ UNCHANGED << searchVars, cacheVars, fetchVars, summVars, restVars, op >>

SearchProperties ==
  /\ op = "init"
  /\ _build_indexes
  /\ result' = search_properties(Indexes, keyword, IterOrder(set_order))
  /\ op' = "search_properties"
  /\ UNCHANGED << init_thread, set_order, keyword, lookup_output, cacheVars,
                  analyzer_session, fetchVars, summVars, restVars >>

LookupAndroidSourceCode ==
  /\ op = "init"
  /\ _build_indexes
  /\ result' = search_properties(Indexes, keyword, IterOrder(set_order))
  /\ lookup_output' = lookup_android_source_code(result')
  /\ op' = "lookup_android_source_code"
  /\ UNCHANGED << init_thread, set_order, keyword, cacheVars, analyzer_session,
                  fetchVars, summVars, restVars >>

NextSearch ==
  \/ InitializeComponents
  \/ SearchProperties
  \/ LookupAndroidSourceCode

SpecSearch == InitSearch /\ [][NextSearch]_vars

----------------------------------------------------------------------------
(* The content cache and scrape_page.                                      *)

InitScraper ==
  /\ init_thread = "pending"
  /\ InitIndexes
  /\ IdleSearch
  /\ InitCache
  /\ analyzer_session = "unset"
  /\ IdleFetch
  /\ IdleSumm
  /\ IdleRest
  /\ op = "init"

\* time passes
Tick(d) ==
  /\ ticks < MaxTicks
  /\ ticks' = ticks + 1
  /\ now' = now + d
  /\ op' = "tick"
  /\ UNCHANGED << init_thread, indexVars, searchVars, analyzer_session, fetchVars,
                  summVars, restVars, _content_cache, cache_url,
                  cached_content, scrape_request, cache_calls >>

CacheContent(url, content) ==
  /\ _content_cache' = _cache_content(_content_cache, url, content, now)
  /\ cache_url' = url
  /\ op' = "_cache_content"
  /\ UNCHANGED << init_thread, indexVars, searchVars, analyzer_session, fetchVars,
                  summVars, restVars, now, ticks, cached_content,
                  scrape_request, cache_calls >>

GetCachedContent(url) ==
  /\ cached_content' = _get_cached_content(_content_cache, url, now)
  /\ cache_url' = url
  /\ op' = "_get_cached_content"
  /\ UNCHANGED << init_thread, indexVars, searchVars, analyzer_session, fetchVars,
                  summVars, restVars, _content_cache, now, ticks,
                  scrape_request, cache_calls >>

\* the call of a cache method made by a fetching operation
CacheCall(by, call) == [by |-> by, call |-> call]

\* scrape_page(url): the cached text if valid; else one GET, whose text is
\* stored and returned when it succeeds, and None when it fails
ScrapePage(url, response) ==
  LET cached == _get_cached_content(_content_cache, url, now)
      lookup == CacheCall("scrape_page", "_get_cached_content")
      store == CacheCall("scrape_page", "_cache_content")
  IN /\ cache_url' = url
     /\ op' = "scrape_page"
     /\ IF cached # None
          THEN /\ cached_content' = cached
               /\ scrape_request' = FALSE
               /\ cache_calls' = cache_calls \cup { lookup }
               /\ UNCHANGED _content_cache
          ELSE IF response \in Contents
            THEN /\ _content_cache' = _cache_content(_content_cache, url, response, now)
                 /\ cached_content' = response
                 /\ scrape_request' = TRUE
                 /\ cache_calls' = cache_calls \cup { lookup, store }
            ELSE /\ cached_content' = None
                 /\ scrape_request' = TRUE
                 /\ cache_calls' = cache_calls \cup { lookup }
                 /\ UNCHANGED _content_cache
     /\ UNCHANGED << init_thread, indexVars, searchVars, analyzer_session, fetchVars,
                  summVars, restVars, now, ticks >>

NextScraper ==
  \/ \E d \in TimeSteps : Tick(d)
  \/ \E u \in CacheUrls, c \in Contents : CacheContent(u, c)
  \/ \E u \in CacheUrls : GetCachedContent(u)
  \/ \E u \in CacheUrls, r \in Contents \cup {"error"} : ScrapePage(u, r)

SpecScraper == InitScraper /\ [][NextScraper]_vars

----------------------------------------------------------------------------
(* fetch_source_file, one request at a time.                               *)

InitFetch ==
  /\ init_thread = "pending"
  /\ InitIndexes
  /\ IdleSearch
  /\ InitCache
  /\ analyzer_session = "unset"
  /\ IdleFetch
  /\ IdleSumm
  /\ IdleRest
  /\ op = "init"

\* fetch_source_file up to the loop: the candidates are selected, and the
\* class session is taken or, when none is set, created without retries
FetchBegin(key, purpose, version) ==
  /\ fetch_pc = "idle"
  /\ file_key' = key
  /\ description' = purpose
  /\ android_version' = version
  /\ urls' = UrlsFor(version, key)
  /\ requests' = << >>
  /\ last_error' = None
  /\ fetched' = NoFile
  /\ op' = "fetch_source_file"
  /\ IF urls' = << >>
       THEN /\ fetch_pc' = "returned"
            /\ url_i' = 0
            /\ attempt' = 0
            /\ UNCHANGED << analyzer_session, session >>
       ELSE /\ fetch_pc' = "requesting"
            /\ url_i' = 1
            /\ attempt' = 1
            /\ analyzer_session' = IF analyzer_session = "unset" THEN "plain"
                                   ELSE analyzer_session
            /\ session' = analyzer_session'
  /\ UNCHANGED << init_thread, indexVars, searchVars, cacheVars, summVars, restVars >>

\* one request of the loop and what the code does with its answer
FetchRequest(answer) ==
  /\ LET url == urls[url_i]
         outcome == Outcome(session, answer, attempt, urls, url_i)
     IN /\ requests' = Append(requests, [i |-> url_i, status |-> StatusOf(answer)])
        /\ CASE outcome = "retry" ->
                  /\ attempt' = attempt + 1
                  /\ UNCHANGED << fetch_pc, url_i, last_error, fetched >>
             [] outcome = "return_file" ->
                  /\ fetched' = FetchedFile(url, answer, description)
                  /\ fetch_pc' = "returned"
                  /\ UNCHANGED << url_i, attempt, last_error >>
             [] outcome = "next_url" ->
                  /\ last_error' = ErrorOf(session, answer)
                  /\ url_i' = NextCandidate(urls, url_i)
                  /\ attempt' = 1
                  /\ UNCHANGED << fetch_pc, fetched >>
             [] outcome = "return_error" ->
                  /\ last_error' = ErrorOf(session, answer)
                  /\ fetched' = ErrorFile(file_key, urls, last_error', description)
                  /\ fetch_pc' = "returned"
                  /\ UNCHANGED << url_i, attempt >>
  /\ UNCHANGED << init_thread, indexVars, searchVars, cacheVars, analyzer_session,
                  session, file_key, description, android_version, urls,
                  summVars, restVars, op >>

\* the caller has taken the returned object: the frame of the call is gone
FetchReturn ==
  /\ fetch_pc = "returned"
  /\ session' = "unset"
  /\ file_key' = ""
  /\ description' = ""
  /\ android_version' = NoneStr
  /\ urls' = << >>
  /\ url_i' = 0
  /\ attempt' = 0
  /\ last_error' = None
  /\ requests' = << >>
  /\ fetched' = NoFile
  /\ fetch_pc' = "idle"
  /\ op' = "init"
  /\ UNCHANGED << init_thread, indexVars, searchVars, cacheVars, analyzer_session,
                  summVars, restVars >>

NextFetch ==
  \/ InitializeComponents
  \/ FetchReturn
  \/ \E key \in FetchKeys, purpose \in Descriptions, version \in FetchVersions :
       FetchBegin(key, purpose, version)
  \/ /\ fetch_pc = "requesting"
     /\ \E answer \in Answers(urls[url_i]) : FetchRequest(answer)

SpecFetch == InitFetch /\ [][NextFetch]_vars

----------------------------------------------------------------------------
(* The locator: the candidate list of a key for a version argument.        *)

InitLocate ==
  /\ init_thread = "pending"
  /\ InitIndexes
  /\ IdleSearch
  /\ InitCache
  /\ analyzer_session = "unset"
  /\ fetch_pc = "idle"
  /\ session = "unset"
  /\ file_key \in FetchKeys
  /\ description = ""
  /\ android_version \in VersionInputs
  /\ urls = << >>
  /\ url_i = 0
  /\ attempt = 0
  /\ last_error = None
  /\ requests = << >>
  /\ fetched = NoFile
  /\ IdleSumm
  /\ IdleRest
  /\ op = "init"

\* _get_version_specific_urls(android_version).get(file_key)
GetVersionSpecificUrls ==
  /\ op = "init"
  /\ urls' = UrlsFor(android_version, file_key)
  /\ op' = "_get_version_specific_urls"
  /\ UNCHANGED << init_thread, indexVars, searchVars, cacheVars, analyzer_session,
                  fetch_pc, session, file_key, description, android_version,
                  url_i, attempt, last_error, requests, fetched, summVars, restVars >>

\* analyze_property_implementation, lines 188-199, and the locator call made
\* with the version it passes on
AnalyzeVersionUrls ==
  /\ op = "init"
  /\ urls' = UrlsFor(AnalyzeVersion(android_version), file_key)
  /\ op' = "analyze_property_implementation"
  /\ UNCHANGED << init_thread, indexVars, searchVars, cacheVars, analyzer_session,
                  fetch_pc, session, file_key, description, android_version,
                  url_i, attempt, last_error, requests, fetched, summVars, restVars >>

NextLocate ==
  \/ GetVersionSpecificUrls
  \/ AnalyzeVersionUrls

SpecLocate == InitLocate /\ [][NextLocate]_vars

----------------------------------------------------------------------------
(* summarize_documentation applied to a question and a list of documents.  *)

InitSumm ==
  /\ init_thread = "pending"
  /\ InitIndexes
  /\ IdleSearch
  /\ InitCache
  /\ analyzer_session = "unset"
  /\ IdleFetch
  /\ \/ /\ question \in Questions
        /\ content_sections \in ListsUpTo(Documents, MaxDocs)
     \/ /\ question = RankQuestion
        /\ content_sections \in ListsUpTo(RankDocuments, MaxRanked)
  /\ summary = [len |-> 0]
  /\ IdleRest
  /\ op = "init"

SummarizeDocumentation ==
  /\ op = "init"
  /\ summary' = summarize_documentation(question, content_sections)
  /\ op' = "summarize_documentation"
  /\ UNCHANGED << init_thread, indexVars, searchVars, cacheVars, analyzer_session,
                  fetchVars, question, content_sections,
                  restVars >>

NextSumm == SummarizeDocumentation

SpecSumm == InitSumm /\ [][NextSumm]_vars

----------------------------------------------------------------------------
(* Source validation: the probes, the confidence score, the suggestions.   *)

InitValidate ==
  /\ init_thread = "pending"
  /\ InitIndexes
  /\ IdleSearch
  /\ InitCache
  /\ analyzer_session = "unset"
  /\ IdleFetch
  /\ IdleSumm
  /\ probes \in ProbeLists
  /\ validations = << >>
  /\ confidence_score = Score(0, 1)
  /\ suggestions = << >>
  /\ IdleTools
  /\ IdleRace
  /\ IdlePool
  /\ op = "init"

\* validate_sources_parallel(urls) when every worker answers before the
\* deadline; as_completed yields the results in the order they finish
ValidateSourcesParallel(order) ==
  /\ op = "init"
  /\ LET done == [i \in 1..Len(probes) |->
                    validate_source(probes[i].url, probes[i].answer)]
     IN validations' = IF order = "submitted" THEN done ELSE Reverse(done)
  /\ op' = "validate_sources_parallel"
  /\ UNCHANGED << init_thread, indexVars, searchVars, cacheVars, analyzer_session,
                  fetchVars, summVars, notValid, probes, confidence_score, suggestions >>

CalculateConfidenceScore ==
  /\ op = "validate_sources_parallel"
  /\ confidence_score' = calculate_confidence_score(validations)
  /\ op' = "calculate_confidence_score"
  /\ UNCHANGED << init_thread, indexVars, searchVars, cacheVars, analyzer_session,
                  fetchVars, summVars, notValid, probes, validations, suggestions >>

\* server.py lines 560-561: the failed validations and their suggestions
SuggestAlternatives ==
  /\ op = "calculate_confidence_score"
  /\ suggestions' = suggest_alternatives_for_failed_sources(
                      FailedValidations(validations))
  /\ op' = "suggest_alternatives_for_failed_sources"
  /\ UNCHANGED << init_thread, indexVars, searchVars, cacheVars, analyzer_session,
                  fetchVars, summVars, notValid, probes, validations, confidence_score >>

NextValidate ==
  \/ \E order \in { "submitted", "finished last first" } : ValidateSourcesParallel(order)
  \/ CalculateConfidenceScore
  \/ SuggestAlternatives

SpecValidate == InitValidate /\ [][NextValidate]_vars

----------------------------------------------------------------------------
(* The tool functions called by the host.                                  *)

MaxToolCalls == 2

InitTools ==
  /\ init_thread = "pending"
  /\ InitIndexes
  /\ IdleSearch
  /\ InitCache
  /\ analyzer_session = "unset"
  /\ IdleFetch
  /\ IdleSumm
  /\ IdleRest
  /\ op = "init"

\* the host calls a tool
ToolCall(name) ==
  /\ tool_pc = "idle"
  /\ tool_calls < MaxToolCalls
  /\ tool_calls' = tool_calls + 1
  /\ tool' = name
  /\ tool_pc' = "running"
  /\ tool_step' = 1
  /\ tool_result' = NoResult
  /\ op' = name
  /\ UNCHANGED << init_thread, indexVars, searchVars, cacheVars, analyzer_session,
                  fetchVars, summVars, notTools >>

\* the next call of the body ends: with a value the body goes on, or
\* returns after its last call; without sections it returns the
\* "Unable to fetch" message; with an exception the handler decides
ToolStep(outcome) ==
  /\ LET body == ToolBody(tool)
     IN IF outcome = "value"
          THEN IF tool_step = Len(body)
                 THEN /\ tool_pc' = "returned"
                      /\ tool_result' = StrResult("result")
                      /\ UNCHANGED tool_step
                 ELSE /\ tool_step' = tool_step + 1
                      /\ UNCHANGED << tool_pc, tool_result >>
          ELSE IF outcome = "empty"
            THEN /\ tool_pc' = "returned"
                 /\ tool_result' = StrResult("Unable to fetch vHAL documentation")
                 /\ UNCHANGED tool_step
          ELSE IF Catches(outcome)
            THEN /\ tool_pc' = "returned"
                 /\ tool_result' = StrResult(<< "Error", outcome >>)
                 /\ UNCHANGED tool_step
            ELSE /\ tool_pc' = "raised"
                 /\ UNCHANGED << tool_step, tool_result >>
  /\ UNCHANGED << init_thread, indexVars, searchVars, cacheVars, analyzer_session,
                  fetchVars, summVars, notTools, tool, tool_calls,
                  op >>

\* the host has the returned string and may call again
ToolDone ==
  /\ tool_pc = "returned"
  /\ tool' = ""
  /\ tool_pc' = "idle"
  /\ tool_step' = 0
  /\ tool_result' = NoResult
  /\ op' = "init"
  /\ UNCHANGED << init_thread, indexVars, searchVars, cacheVars, analyzer_session,
                  fetchVars, summVars, notTools, tool_calls >>

NextTools ==
  \/ InitializeComponents
  \/ \E name \in Tools : ToolCall(name)
  \/ /\ tool_pc = "running"
     /\ \E outcome \in CallOutcomes(ToolBody(tool)[tool_step], analyzer_session) :
          ToolStep(outcome)
  \/ ToolDone

SpecTools == InitTools /\ [][NextTools]_vars

----------------------------------------------------------------------------
(* The start-up thread and a query thread, statement by statement.  Both   *)
(* enter _build_indexes, which takes no lock.                              *)

InitIndexRace ==
  /\ init_thread = "pending"
  /\ InitIndexes
  /\ set_order \in IterOrders
  /\ keyword \in RaceQueries
  /\ result = << >>
  /\ lookup_output = << >>
  /\ InitCache
  /\ analyzer_session = "unset"
  /\ IdleFetch
  /\ IdleSumm
  /\ IdleRest
  /\ op = "init"

\* the four indexes are what one uninterrupted construction leaves
IndexesComplete ==
  /\ _keyword_index = Dict(BuiltKeywordIndex)
  /\ _category_index = Dict(BuiltCategoryIndex)
  /\ _exact_match_index = Dict(BuiltExactMatchIndex)
  /\ _partial_match_index = Dict(BuiltPartialMatchIndex)

\* some thread is between the None test and the end of the loop
Constructing ==
  \E t \in Threads : build_pc[t] \notin { "check", "built", "returned" }

\* line 78: if cls._keyword_index is not None: return
BuildCheck(t) ==
  /\ build_pc[t] = "check"
  /\ IF _keyword_index # NoDict
       THEN /\ build_pc' = [build_pc EXCEPT ![t] = "built"]
            /\ UNCHANGED constructions
       ELSE /\ build_pc' = [build_pc EXCEPT ![t] = "set_keyword"]
            /\ constructions' = constructions + 1
  /\ UNCHANGED << init_thread, indexVars, searchVars, cacheVars, analyzer_session,
                  fetchVars, summVars, notRace, fill_next,
                  query_outcome, memo, op >>

\* lines 81-84: the four assignments of an empty dict, one at a time
BuildSet(t) ==
  /\ build_pc[t] \in { "set_keyword", "set_category", "set_exact", "set_partial" }
  /\ _keyword_index' = IF build_pc[t] = "set_keyword" THEN Dict(EmptyDict)
                       ELSE _keyword_index
  /\ _category_index' = IF build_pc[t] = "set_category" THEN Dict(EmptyDict)
                        ELSE _category_index
  /\ _exact_match_index' = IF build_pc[t] = "set_exact" THEN Dict(EmptyDict)
                           ELSE _exact_match_index
  /\ _partial_match_index' = IF build_pc[t] = "set_partial" THEN Dict(EmptyDict)
                             ELSE _partial_match_index
  /\ build_pc' = [build_pc EXCEPT ![t] =
                    CASE build_pc[t] = "set_keyword" -> "set_category"
                      [] build_pc[t] = "set_category" -> "set_exact"
                      [] build_pc[t] = "set_exact" -> "set_partial"
                      [] OTHER -> "fill"]
  /\ fill_next' = [fill_next EXCEPT ![t] =
                     IF build_pc[t] = "set_partial" THEN 1 ELSE @]
  /\ UNCHANGED << init_thread, searchVars, cacheVars, analyzer_session, fetchVars,
                  summVars, notRace, constructions, query_outcome,
                  memo, op >>

\* lines 86-117: one iteration of the loop over the categories, written
\* into whatever dicts the class attributes hold now
BuildFill(t) ==
  /\ build_pc[t] = "fill"
  /\ _keyword_index' = Dict(FillKeywordIndex(_keyword_index.d, fill_next[t]))
  /\ _category_index' = Dict(FillCategoryIndex(_category_index.d, fill_next[t]))
  /\ _exact_match_index' = Dict(FillExactMatchIndex(_exact_match_index.d, fill_next[t]))
  /\ _partial_match_index' =
       Dict(FillPartialMatchIndex(_partial_match_index.d, fill_next[t]))
  /\ IF fill_next[t] = Len(PROPERTIES)
       THEN /\ build_pc' = [build_pc EXCEPT ![t] = "built"]
            /\ UNCHANGED fill_next
       ELSE /\ fill_next' = [fill_next EXCEPT ![t] = @ + 1]
            /\ UNCHANGED build_pc
  /\ UNCHANGED << init_thread, searchVars, cacheVars, analyzer_session, fetchVars,
                  summVars, notRace, constructions, query_outcome,
                  memo, op >>

\* _initialize_components after its call of _build_indexes
InitThreadFinish ==
  /\ build_pc["init"] = "built"
  /\ init_thread' = "done"
  /\ analyzer_session' = "shared"
  /\ build_pc' = [build_pc EXCEPT !["init"] = "returned"]
  /\ UNCHANGED << indexVars, searchVars, cacheVars, fetchVars, summVars, notRace, fill_next, constructions, query_outcome, memo, op >>

\* search_properties after its call of _build_indexes: reads the indexes
\* as they are; lru_cache keeps what it returns, not what it raises
QueryRead ==
  /\ build_pc["query"] = "built"
  /\ LET out == ReadIndexes(_keyword_index, _category_index, _exact_match_index,
                            _partial_match_index, keyword, IterOrder(set_order))
     IN /\ query_outcome' = [kind |-> out.kind,
                             complete |-> IndexesComplete /\ ~Constructing]
        /\ result' = IF out.kind = "list" THEN out.value ELSE result
        /\ memo' = IF out.kind = "list"
                     THEN << [keyword |-> keyword, value |-> out.value] >>
                     ELSE memo
  /\ build_pc' = [build_pc EXCEPT !["query"] = "returned"]
  /\ op' = "search_properties"
  /\ UNCHANGED << init_thread, indexVars, set_order, keyword, lookup_output,
                  cacheVars, analyzer_session, fetchVars, summVars, notRace, fill_next, constructions >>

NextIndexRace ==
  \/ \E t \in Threads : BuildCheck(t)
  \/ \E t \in Threads : BuildSet(t)
  \/ \E t \in Threads : BuildFill(t)
  \/ InitThreadFinish
  \/ QueryRead

SpecIndexRace == InitIndexRace /\ [][NextIndexRace]_vars

----------------------------------------------------------------------------
(* The batch operations, the pool's workers and the deadline.              *)

InitPool ==
  /\ init_thread = "pending"
  /\ InitIndexes
  /\ IdleSearch
  /\ InitCache
  /\ analyzer_session = "unset"
  /\ IdleFetch
  /\ IdleSumm
  /\ IdleRest
  /\ op = "init"

Running == { t \in DOMAIN tasks : tasks[t] = "running" }

Queued == { t \in DOMAIN tasks : tasks[t] = "queued" }

\* the high-priority keys and the keys of the submitted tasks
TaskKey(t) == low_priority_files[t].key

\* the call: the scraper puts the cached contents into results, the
\* analyzer starts its synchronous loop, the others submit at once
BatchBegin(batch_op, n, cached) ==
  /\ batch_pc = "idle"
  /\ batch' = batch_op
  /\ gathered' = [i \in 1..cached |-> [from |-> "cache", id |-> i]]
  /\ IF batch_op = "analyze_property_implementation"
       THEN /\ batch_pc' = "high"
            /\ high_i' = 1
            /\ UNCHANGED << max_workers, tasks >>
       ELSE /\ batch_pc' = "pool"
            /\ max_workers' = MaxWorkers(batch_op, n)
            /\ tasks' = [t \in 1..n |-> "queued"]
            /\ UNCHANGED high_i
  /\ op' = batch_op
  /\ UNCHANGED << init_thread, indexVars, searchVars, cacheVars, analyzer_session,
                  fetchVars, summVars, notPool, high_busy, collected, deadline,
                  pending_exc, waited_for, fetch_log, batch_result >>

\* lines 227-230: the synchronous fetch of one high-priority file begins
HighStart ==
  /\ batch_pc = "high"
  /\ high_i <= Len(high_priority_files)
  /\ ~high_busy
  /\ high_busy' = TRUE
  /\ fetch_log' = Append(fetch_log, [key |-> high_priority_files[high_i].key,
                                     event |-> "start"])
  /\ UNCHANGED << init_thread, indexVars, searchVars, cacheVars, analyzer_session,
                  fetchVars, summVars, notPool, batch, batch_pc, high_i,
                  max_workers, tasks, collected, gathered, deadline, pending_exc,
                  waited_for, batch_result, op >>

\* ... and returns; its file object goes into source_files
HighFinish ==
  /\ batch_pc = "high"
  /\ high_busy
  /\ high_busy' = FALSE
  /\ gathered' = Append(gathered, [from |-> "high", id |-> high_i])
  /\ fetch_log' = Append(fetch_log, [key |-> high_priority_files[high_i].key,
                                     event |-> "finish"])
  /\ high_i' = high_i + 1
  /\ UNCHANGED << init_thread, indexVars, searchVars, cacheVars, analyzer_session,
                  fetchVars, summVars, notPool, batch, batch_pc, max_workers,
                  tasks, collected, deadline, pending_exc, waited_for,
                  batch_result, op >>

\* lines 233-239: after the loop the low-priority files are submitted
SubmitLow ==
  /\ batch_pc = "high"
  /\ high_i > Len(high_priority_files)
  /\ batch_pc' = "pool"
  /\ max_workers' = MaxWorkers(batch, Len(low_priority_files))
  /\ tasks' = [t \in 1..Len(low_priority_files) |-> "queued"]
  /\ UNCHANGED << init_thread, indexVars, searchVars, cacheVars, analyzer_session,
                  fetchVars, summVars, notPool, batch, high_i, high_busy,
                  collected, gathered, deadline, pending_exc, waited_for,
                  fetch_log, batch_result, op >>

\* a free worker takes the oldest queued task
WorkerStart(t) ==
  /\ batch_pc \in { "pool", "exiting" }
  /\ t \in Queued
  /\ \A u \in Queued : t <= u
  /\ Cardinality(Running) < max_workers
  /\ tasks' = [tasks EXCEPT ![t] = "running"]
  /\ fetch_log' = IF batch = "analyze_property_implementation"
                    THEN Append(fetch_log, [key |-> TaskKey(t), event |-> "start"])
                    ELSE fetch_log
  /\ UNCHANGED << init_thread, indexVars, searchVars, cacheVars, analyzer_session,
                  fetchVars, summVars, notPool, batch, batch_pc, high_i, high_busy,
                  max_workers, collected, gathered, deadline, pending_exc,
                  waited_for, batch_result, op >>

\* a task ends with a value ("ok") or with None ("failed")
WorkerFinish(t, outcome) ==
  /\ batch_pc \in { "pool", "exiting" }
  /\ t \in Running
  /\ tasks' = [tasks EXCEPT ![t] = outcome]
  /\ waited_for' = IF batch_pc = "exiting" THEN waited_for \cup { t }
                   ELSE waited_for
  /\ fetch_log' = IF batch = "analyze_property_implementation"
                    THEN Append(fetch_log, [key |-> TaskKey(t), event |-> "finish"])
                    ELSE fetch_log
  /\ UNCHANGED << init_thread, indexVars, searchVars, cacheVars, analyzer_session,
                  fetchVars, summVars, notPool, batch, batch_pc, high_i, high_busy,
                  max_workers, collected, gathered, deadline, pending_exc,
                  batch_result, op >>

\* as_completed yields a finished future and the loop body runs
Collect(t) ==
  /\ batch_pc = "pool"
  /\ ~deadline
  /\ t \in DOMAIN tasks \ collected
  /\ tasks[t] \in { "ok", "failed" }
  /\ collected' = collected \cup { t }
  /\ gathered' = IF Appends(batch, tasks[t]) THEN Append(gathered, PoolItem(t))
                 ELSE gathered
  /\ UNCHANGED << init_thread, indexVars, searchVars, cacheVars, analyzer_session,
                  fetchVars, summVars, notPool, batch, batch_pc, high_i, high_busy,
                  max_workers, tasks, deadline, pending_exc, waited_for,
                  fetch_log, batch_result, op >>

\* the timeout given to as_completed runs out
DeadlineExpires ==
  /\ batch_pc = "pool"
  /\ ~deadline
  /\ deadline' = TRUE
  /\ UNCHANGED << init_thread, indexVars, searchVars, cacheVars, analyzer_session,
                  fetchVars, summVars, notPool, batch, batch_pc, high_i, high_busy,
                  max_workers, tasks, collected, gathered, pending_exc,
                  waited_for, fetch_log, batch_result, op >>

\* as_completed: with futures still pending after the timeout it raises
\* TimeoutError from the for statement, outside the try of the loop body
AsCompletedRaises ==
  /\ batch_pc = "pool"
  /\ deadline
  /\ DOMAIN tasks \ collected # {}
  /\ batch_pc' = "exiting"
  /\ pending_exc' = "TimeoutError"
  /\ UNCHANGED << init_thread, indexVars, searchVars, cacheVars, analyzer_session,
                  fetchVars, summVars, notPool, batch, high_i, high_busy,
                  max_workers, tasks, collected, gathered, deadline, waited_for,
                  fetch_log, batch_result, op >>

\* as_completed is exhausted: every future has been yielded
AsCompletedEnds ==
  /\ batch_pc = "pool"
  /\ collected = DOMAIN tasks
  /\ batch_pc' = "exiting"
  /\ UNCHANGED << init_thread, indexVars, searchVars, cacheVars, analyzer_session,
                  fetchVars, summVars, notPool, batch, high_i, high_busy,
                  max_workers, tasks, collected, gathered, deadline, pending_exc,
                  waited_for, fetch_log, batch_result, op >>

\* the with block is left; the function returns its list or the pending
\* exception leaves it
BatchExit ==
  /\ batch_pc = "exiting"
  /\ ExitMayLeave(tasks)
  /\ IF Propagates(pending_exc)
       THEN /\ batch_pc' = "raised"
            /\ batch_result' = [type |-> pending_exc]
       ELSE /\ batch_pc' = "returned"
            /\ batch_result' = [type |-> "list", value |-> gathered]
  /\ UNCHANGED << init_thread, indexVars, searchVars, cacheVars, analyzer_session,
                  fetchVars, summVars, notPool, batch, high_i, high_busy,
                  max_workers, tasks, collected, gathered, deadline, pending_exc,
                  waited_for, fetch_log, op >>

NextPool ==
  \/ \E batch_op \in BatchOps :
       \E n \in BatchSizes(batch_op), cached \in CachedCounts(batch_op) :
         BatchBegin(batch_op, n, cached)
  \/ HighStart
  \/ HighFinish
  \/ SubmitLow
  \/ \E t \in DOMAIN tasks : WorkerStart(t)
  \/ \E t \in DOMAIN tasks, outcome \in Outcomes(batch) : WorkerFinish(t, outcome)
  \/ \E t \in DOMAIN tasks : Collect(t)
  \/ DeadlineExpires
  \/ AsCompletedRaises
  \/ AsCompletedEnds
  \/ BatchExit

SpecPool == InitPool /\ [][NextPool]_vars

----------------------------------------------------------------------------
(* The two operations that fetch remote content, in one process:           *)
(* scrape_page and fetch_source_file.                                      *)

NextRemote ==
  \/ \E d \in TimeSteps : Tick(d)
  \/ \E u \in RemoteUrls, r \in Contents \cup {"error"} : ScrapePage(u, r)
  \/ \E key \in RemoteKeys, purpose \in Descriptions :
       FetchBegin(key, purpose, NoneStr)
  \/ /\ fetch_pc = "requesting"
     /\ \E answer \in Answers(urls[url_i]) : FetchRequest(answer)
  \/ FetchReturn

SpecRemote == InitScraper /\ [][NextRemote]_vars

----------------------------------------------------------------------------
(* Properties of the search.                                               *)

Searched == op \in { "search_properties", "lookup_android_source_code" }

IsCasingOf(q, n) == Len(q) = Len(n) /\ Upper(q) = Upper(n)

OnlyWhitespace(q) == Range(q) \subseteq Whitespace

IsExactName(q) == \E n \in Range(CatalogNames) : IsCasingOf(q, n)

NoDuplicates(props) ==
  \A i, j \in 1..Len(props) : props[i].name = props[j].name => i = j

\* C1: searching a catalog name n, in any letter-casing, returns a list of
\* exactly one record, and that record's name is n.
C1_ExactNameReturnsThatRecord ==
  Searched =>
    \A n \in Range(CatalogNames) :
      IsCasingOf(keyword, n) => Len(result) = 1 /\ result[1].name = n

C1_Witness ==
  /\ Searched
  /\ \E n \in Range(CatalogNames) :
       /\ IsCasingOf(keyword, n)
       /\ keyword \notin { n, Lower(n) }
       /\ result = << PropNamed(n) >>

\* C2: the list returned by search_properties never holds two records
\* with the same name.
C2_NoDuplicateNames == Searched => NoDuplicates(result)

\* two different terms of the query are keywords of one returned record
C2_Witness ==
  /\ Searched
  /\ LET terms == SplitWs(Lower(keyword))
     IN \E a, b \in 1..Len(terms), i \in 1..Len(result) :
          /\ a # b
          /\ terms[a] # terms[b]
          /\ { terms[a], terms[b] } \subseteq Range(Keywords(Lower(result[i].name)))

\* The query matches some record in some tier, read off the catalog.
MatchesSomeTier(q) ==
  LET terms == SplitWs(Lower(q))
      upper == Upper(q)
      lower == Lower(q)
  IN \/ IsExactName(q)
     \/ \E c \in CatalogCategories : Contains(CategoryValue[c], upper)
     \/ \E n \in Range(CatalogNames), t \in 1..Len(terms) :
          \/ terms[t] \in Range(Keywords(n)) \cup Range(Keywords(Lower(n)))
          \/ terms[t] = Lower(n)
     \/ \E n \in Range(CatalogNames) : SubstringHit(n, upper, lower, terms)

\* C3: a query that is empty, whitespace-only or without a match in any
\* tier gets the empty list, and lookup_android_source_code then still
\* returns its normal text with the 'Source Code Locations' section.
C3_NoMatchIsEmptyList ==
  (Searched /\ (OnlyWhitespace(keyword) \/ ~MatchesSomeTier(keyword))) =>
    /\ result = << >>
    /\ op = "lookup_android_source_code" =>
         /\ "## Source Code Locations:" \in Range(lookup_output)
         /\ "## Vehicle Property Definitions:" \notin Range(lookup_output)

C3_Witness ==
  /\ op = "lookup_android_source_code"
  /\ keyword # << >>
  /\ ~OnlyWhitespace(keyword)
  /\ ~MatchesSomeTier(keyword)
  /\ result = << >>
  /\ "## Source Code Locations:" \in Range(lookup_output)

C3_WitnessBlank ==
  /\ op = "lookup_android_source_code"
  /\ OnlyWhitespace(keyword)
  /\ Len(keyword) > 1
  /\ result = << >>

InSomeCategoryName(q) ==
  \E c \in CatalogCategories : Contains(CategoryValue[c], Upper(q))

\* the '_' fragments of every catalog name, in lower case
LowerFragments ==
  [n \in Range(CatalogNames) |-> { Lower(k) : k \in Range(Keywords(n)) }]

\* the records that have a token of the query among their '_' fragments
KeywordUnion(q) ==
  LET tokens == { Lower(t) : t \in Range(SplitWs(q)) }
  IN { n \in Range(CatalogNames) : tokens \cap LowerFragments[n] # {} }

\* C4: for a query that is no record name and no substring of a category
\* name, the result is exactly the union over the query's tokens of the
\* records having that token as a '_' fragment, when the union is not empty.
C4_KeywordTierIsTokenUnion ==
  (Searched /\ ~IsExactName(keyword) /\ ~InSomeCategoryName(keyword)
     /\ KeywordUnion(keyword) # {}) =>
    /\ Names(result) = KeywordUnion(keyword)
    /\ Len(result) = Cardinality(KeywordUnion(keyword))

\* two tokens, each bringing a record the other does not
C4_Witness ==
  /\ Searched /\ ~IsExactName(keyword) /\ ~InSomeCategoryName(keyword)
  /\ LET tokens == SplitWs(keyword)
     IN /\ Len(tokens) = 2
        /\ KeywordUnion(tokens[1]) \ KeywordUnion(tokens[2]) # {}
        /\ KeywordUnion(tokens[2]) \ KeywordUnion(tokens[1]) # {}
  /\ Names(result) = KeywordUnion(keyword)

CategoryRecords(c) ==
  LET InCat(p) == p.category = c IN SelectSeq(CatalogProps, InCat)

\* the first category, in catalog order, whose name contains the query
FirstCategoryContaining(q) ==
  PROPERTIES[CHOOSE c \in 1..Len(PROPERTIES) :
               /\ Contains(CategoryValue[PROPERTIES[c].category], Upper(q))
               /\ \A b \in 1..(c - 1) :
                    ~Contains(CategoryValue[PROPERTIES[b].category], Upper(q))].category

\* C5 as stated: a query that is no record name and is a substring of a
\* category's name returns all records of that category and nothing else.
C5_AsStated ==
  (Searched /\ keyword # << >> /\ ~IsExactName(keyword)) =>
    \A c \in CatalogCategories :
      Contains(CategoryValue[c], Upper(keyword)) => result = CategoryRecords(c)

\* C5 (amended): a non-empty query that is no record name and is a
\* substring of the name of some catalog category returns all records of
\* the first such category in catalog order, and no record of a later tier;
\* 'SEAT' returns the SEAT records (ids 0x0B..), 'HVAC' the HVAC records
\* (ids 0x0A..).
C5_FirstMatchingCategoryOnly ==
  (Searched /\ keyword # << >> /\ ~IsExactName(keyword)
     /\ InSomeCategoryName(keyword)) =>
    /\ result = CategoryRecords(FirstCategoryContaining(keyword))
    /\ Upper(keyword) = <<"S","E","A","T">> =>
         /\ Len(result) = Len(SEAT_PROPERTIES)
         /\ \A i \in 1..Len(result) : StartsWith(result[i].id, <<"0","x","0","B">>)
    /\ Upper(keyword) = <<"H","V","A","C">> =>
         /\ Len(result) = Len(HVAC_PROPERTIES)
         /\ \A i \in 1..Len(result) : StartsWith(result[i].id, <<"0","x","0","A">>)

\* the query is in the names of two categories, and is a keyword of a
\* record outside the returned category
C5_Witness ==
  /\ Searched /\ keyword # << >> /\ ~IsExactName(keyword)
  /\ \A c \in CatalogCategories : Contains(CategoryValue[c], Upper(keyword))
  /\ result = CategoryRecords("SEAT")

C5_WitnessSeat ==
  /\ Searched
  /\ Lower(keyword) = <<"s","e","a","t">>
  /\ KeywordUnion(keyword) \ Names(result) # {}
  /\ result = CategoryRecords("SEAT")

----------------------------------------------------------------------------
(* C23: the relevance order of the returned list.                          *)

\* the relevance group of a record for a query: 1 the name is the query,
\* 2 it starts with it, 3 it contains it elsewhere, 4 it does not
RelevanceGroup(m, q) ==
  IF m.name = q THEN 1
  ELSE IF StartsWith(m.name, q) THEN 2
  ELSE IF Contains(m.name, q) THEN 3
  ELSE 4

\* the query is a substring of the value of a category of the catalog
ByCategoryTier(q) ==
  \E c \in CatalogCategories : Contains(CategoryValue[c], Upper(q))

\* C23: the list returned by search_properties is in relevance order,
\* whichever tier produced it: no record of a later group stands before a
\* record of an earlier group (equal to the query, starting with it,
\* containing it elsewhere, other).
C23_ResultInRelevanceOrder ==
  Searched =>
    LET keyword_upper == Upper(keyword)
        group == [i \in 1..Len(result) |-> RelevanceGroup(result[i], keyword_upper)]
    IN \A i \in 1..(Len(result) - 1) : group[i] <= group[i + 1]

\* records that start with the query are followed by records that contain
\* it elsewhere, the list coming from the scan of the catalog
C23_Witness ==
  /\ Searched
  /\ ~ByCategoryTier(keyword)
  /\ \E i, j \in 1..Len(result) :
       /\ RelevanceGroup(result[i], Upper(keyword)) = 2
       /\ RelevanceGroup(result[j], Upper(keyword)) = 3

\* the list of the category tier, which returns before the sort
C23_WitnessCategory ==
  /\ Searched
  /\ ByCategoryTier(keyword)
  /\ ~IsExactName(keyword)
  /\ Len(result) = Len(SEAT_PROPERTIES)
  /\ \A i \in 1..Len(result) : RelevanceGroup(result[i], Upper(keyword)) = 3

----------------------------------------------------------------------------
(* C24: the returned list across processes.                                *)

\* the four indexes as they are once constructed
BuiltIndexes ==
  [keyword |-> BuiltKeywordIndex, category |-> BuiltCategoryIndex,
   exact |-> BuiltExactMatchIndex, partial |-> BuiltPartialMatchIndex]

\* C24 as stated: for a given catalog and query the returned list is the
\* same sequence in every process, whatever the order in which the process
\* iterates the sets of names of the keyword index; the list of a process
\* is then the list of the process that iterates in insertion order.
C24_AsStated ==
  Searched =>
    result = search_properties(BuiltIndexes, keyword, IterOrder("insertion"))

\* two names of one relevance group come from one set of the keyword
\* index, in the order in which this process iterates it
C24_ListFollowsSetOrder ==
  /\ Searched
  /\ keyword = <<"t","i","l","t">>
  /\ set_order = "reversed"
  /\ Len(result) = 2
  /\ result # search_properties(BuiltIndexes, keyword, IterOrder("insertion"))

----------------------------------------------------------------------------
(* C25: the substring scan, the last tier of the search.                   *)

\* the whitespace-separated terms of the query, in lower case
QueryTerms(q) == Range(SplitWs(Lower(q)))

\* the records the partial index holds under a term of the query: a term
\* is a '_' fragment of the name or the whole name, in lower case
PartialUnion(q) ==
  { n \in Range(CatalogNames) :
      QueryTerms(q) \cap (LowerFragments[n] \cup { Lower(n) }) # {} }

\* the query is not blank and the exact, category, keyword and partial
\* tiers have no record for it
NoTierMatch(q) ==
  /\ ~OnlyWhitespace(q)
  /\ ~IsExactName(q)
  /\ ~InSomeCategoryName(q)
  /\ KeywordUnion(q) = {}
  /\ PartialUnion(q) = {}

\* the three tests the scan is said to apply to a name
ScanAsStated(q) ==
  { n \in Range(CatalogNames) :
      \/ Contains(Upper(n), Upper(q))
      \/ \E k \in LowerFragments[n] : Contains(Lower(q), k)
      \/ \E t \in QueryTerms(q) : Contains(Lower(n), t) }

\* the tests of lines 172-173: the name contains the query, or the name
\* contains a term of the query
ScanTests(q) ==
  { n \in Range(CatalogNames) :
      \/ Contains(Upper(n), Upper(q))
      \/ \E t \in QueryTerms(q) : Contains(Lower(n), t) }

\* C25 as stated: when the four tiers yield nothing the result is every
\* record whose name contains the query, or one of whose '_' tokens is
\* contained in the query, or whose name contains a term of the query.
C25_AsStated ==
  (Searched /\ NoTierMatch(keyword)) => Names(result) = ScanAsStated(keyword)

\* C25 (amended): when the exact, category, keyword and partial tiers all
\* yield nothing, the result is every catalog record whose name contains,
\* case-insensitively, the whole query or one of its whitespace-separated
\* terms, each once; the partial tier contributes only when the keyword
\* tier found nothing, and the scan only when the partial tier found
\* nothing as well.
C25_ScanIsNameContainsQueryOrTerm ==
  (Searched /\ ~OnlyWhitespace(keyword) /\ ~IsExactName(keyword)
     /\ ~InSomeCategoryName(keyword)) =>
    /\ NoDuplicates(result)
    /\ Names(result) =
         IF KeywordUnion(keyword) # {} THEN KeywordUnion(keyword)
         ELSE IF PartialUnion(keyword) # {} THEN PartialUnion(keyword)
         ELSE ScanTests(keyword)

\* the scan finds the records through a term of a two-term query that no
\* name contains as a whole
C25_Witness ==
  /\ Searched
  /\ NoTierMatch(keyword)
  /\ Len(SplitWs(keyword)) = 2
  /\ \A n \in Range(CatalogNames) : ~Contains(Upper(n), Upper(keyword))
  /\ result # << >>
  /\ Names(result) = ScanTests(keyword)

\* the partial tier answers and the scan does not run: the records of the
\* scan for the same query are more
C25_WitnessPartial ==
  /\ Searched
  /\ ~InSomeCategoryName(keyword)
  /\ KeywordUnion(keyword) = {}
  /\ PartialUnion(keyword) # {}
  /\ Names(result) = PartialUnion(keyword)

----------------------------------------------------------------------------
(* C26: the indexes once constructed.                                      *)

\* the indexes have been constructed
IndexesBuilt == _keyword_index # NoDict

\* the '_' fragments of every catalog name, as written
Fragments == [n \in Range(CatalogNames) |-> Range(Keywords(n))]

\* the number of occurrences of record p in the list
Occurrences(list, p) == Cardinality({ j \in 1..Len(list) : list[j] = p })

\* every record is in one bucket of the category index, once
InOneCategoryBucket ==
  \A i \in 1..Len(CatalogProps) :
    /\ CatalogProps[i].category \in DOMAIN _category_index.d
    /\ \A c \in DOMAIN _category_index.d :
         Occurrences(_category_index.d[c], CatalogProps[i])
           = IF c = CatalogProps[i].category THEN 1 ELSE 0

\* every '_' fragment of a name leads to the name in the keyword index, as
\* written and in lower case, and to the record in the partial index, in
\* lower case
FragmentsIndexed ==
  \A i \in 1..Len(CatalogProps) :
    LET name == CatalogProps[i].name
    IN /\ \A k \in Fragments[name] \cup LowerFragments[name] :
            k \in DOMAIN _keyword_index.d /\ name \in _keyword_index.d[k]
       /\ \A k \in LowerFragments[name] :
            /\ k \in DOMAIN _partial_match_index.d
            /\ Occurrences(_partial_match_index.d[k], CatalogProps[i]) >= 1

\* C26: once the indexes are constructed, in that state and in every later
\* one each catalog record is in exactly one bucket of the category index,
\* and each '_' fragment of its name is mapped by the keyword index to the
\* name and by the partial index to the record; a call of _build_indexes
\* on constructed indexes leaves the four indexes as they are.
C26_IndexesCompleteAndStable ==
  [][ /\ IndexesBuilt => UNCHANGED indexVars
      /\ IndexesBuilt' => (InOneCategoryBucket /\ FragmentsIndexed)' ]_vars

\* a second call of _build_indexes has returned: the start-up thread has
\* constructed the indexes and a query has been answered from them
C26_Witness ==
  /\ init_thread = "done"
  /\ op = "search_properties"
  /\ IndexesBuilt
  /\ InOneCategoryBucket
  /\ FragmentsIndexed
  /\ Len(_partial_match_index.d[<<"s","e","a","t">>]) > Len(SEAT_PROPERTIES)

----------------------------------------------------------------------------
(* Properties of the content cache.                                        *)

\* C6: a lookup of a stored URL returns the stored content while less than
\* the cache duration (3600 s) has elapsed since the store, and a miss from
\* then on; the lookup leaves the entry in the cache map.
C6_CacheHitUntilTtlThenShadowed ==
  [][ op' = "_get_cached_content" =>
        /\ _content_cache' = _content_cache
        /\ cache_url' \in DOMAIN _content_cache =>
             LET entry == _content_cache[cache_url']
             IN IF now - entry.timestamp < 3600
                  THEN cached_content' = entry.content
                  ELSE cached_content' = None ]_vars

\* a lookup exactly one cache duration after the store misses, the entry
\* being still there
C6_Witness ==
  /\ op = "_get_cached_content"
  /\ cache_url \in DOMAIN _content_cache
  /\ now - _content_cache[cache_url].timestamp = 3600
  /\ cached_content = None

C6_WitnessHit ==
  /\ op = "_get_cached_content"
  /\ cache_url \in DOMAIN _content_cache
  /\ now - _content_cache[cache_url].timestamp = 3599
  /\ cached_content = _content_cache[cache_url].content

----------------------------------------------------------------------------
(* Claims about fetch_source_file and the locator.                         *)

Request(i, status) == [i |-> i, status |-> status]

\* every candidate of the key was requested and no request was answered 200
EveryCandidateFailed ==
  /\ urls # << >>
  /\ \A i \in 1..Len(urls) : \E j \in 1..Len(requests) : requests[j].i = i
  /\ \A j \in 1..Len(requests) : requests[j].status # 200
  /\ fetch_pc # "requesting"

\* C7: for a key with candidate URLs, when every candidate has failed
\* (timeout or a non-success status), fetch_source_file has returned an
\* object with language "error" and line_count 0; the call always ends by
\* returning, never by raising.
C7_AllCandidatesFailIsErrorObject ==
  /\ fetch_pc \in { "idle", "requesting", "returned" }
  /\ EveryCandidateFailed =>
       /\ fetch_pc = "returned"
       /\ fetched # NoFile
       /\ fetched.language = "error"
       /\ fetched.line_count = 0

C7_Witness ==
  /\ EveryCandidateFailed
  /\ Len(urls) >= 2
  /\ \E j \in 1..Len(requests) : requests[j].status = 0
  /\ \E j \in 1..Len(requests) : requests[j].status = 404
  /\ fetched.language = "error"

\* C8 as stated: two 503 answers exhaust the retries of the first
\* candidate, so the request after them goes to the second candidate.
C8_AsStated ==
  ( /\ Len(requests) >= 3
    /\ requests[1] = Request(1, 503)
    /\ requests[2] = Request(1, 503) )
  => requests[3].i = 2

\* the first candidate answered 503 to every request the session sends to
\* one URL (one, and under the shared session two retries more), and
\* nothing else has been requested before
FirstCandidateExhausted(k) ==
  /\ k = RetriesOf(session) + 1
  /\ Len(requests) >= k
  /\ \A j \in 1..k : requests[j] = Request(1, 503)
  /\ Len(urls) >= 2

\* C8: when the first candidate of a key has answered 503 to the request
\* and to every retry of it (two retries under the shared session, none
\* under a session created by fetch_source_file), the next request goes to
\* the second candidate, and when that one answers 200 the call returns
\* the second candidate's payload, not flagged as an error.
C8_FallbackAfterRetriesExhausted ==
  \A k \in 1..Len(requests) :
    FirstCandidateExhausted(k) =>
      /\ Len(requests) = k => fetch_pc = "requesting" /\ url_i = 2
      /\ Len(requests) > k =>
           /\ requests[k + 1].i = 2
           /\ requests[k + 1].status = 200 =>
                /\ Len(requests) = k + 1
                /\ fetch_pc = "returned"
                /\ fetched.url = DisplayUrl(urls[2])
                /\ fetched.content = FileText(urls[2])
                /\ fetched.language # "error"
                /\ fetched.line_count > 0

C8_Witness ==
  /\ session = "shared"
  /\ requests = << Request(1, 503), Request(1, 503), Request(1, 503),
                   Request(2, 200) >>
  /\ fetch_pc = "returned"
  /\ fetched.url = DisplayUrl(urls[2])
  /\ fetched.language # "error"

C8_WitnessPlain ==
  /\ session = "plain"
  /\ requests = << Request(1, 503), Request(2, 200) >>
  /\ fetched.url = DisplayUrl(urls[2])

\* the version argument is a string that is no key of
\* SUPPORTED_ANDROID_VERSIONS, whatever its casing and outer blanks
Unsupported(version) ==
  /\ version # NoneStr
  /\ Strip(Lower(version[1])) \notin DictKeys(SUPPORTED_ANDROID_VERSIONS)

\* the string contains the number or branch word of a supported version
EmbedsSupported(version) ==
  \E k \in DictKeys(SUPPORTED_ANDROID_VERSIONS) :
    Contains(Strip(Lower(version[1])), RemoveAll(k, AndroidPrefix))

\* C9: for every key, the list selected for a version string that is not
\* a supported version is the list selected without a version argument,
\* the list of DEFAULT_VERSION; through analyze_property_implementation
\* this holds for the strings that embed no supported number.
C9_UnsupportedVersionSelectsDefaultList ==
  /\ ( op = "_get_version_specific_urls" /\ Unsupported(android_version) )
       => urls = UrlsFor(NoneStr, file_key)
  /\ ( /\ op = "analyze_property_implementation"
       /\ Unsupported(android_version)
       /\ ~EmbedsSupported(android_version) )
       => urls = UrlsFor(NoneStr, file_key)
  /\ op # "init" /\ android_version = NoneStr
       => urls = UrlsFor(Some(DEFAULT_VERSION), file_key)

C9_Witness ==
  /\ op = "_get_version_specific_urls"
  /\ android_version = Some(<<"v","9">>)
  /\ file_key = "default_hal_impl"
  /\ Len(urls) = 3
  /\ urls[1].branch = DictGet(SUPPORTED_ANDROID_VERSIONS, DEFAULT_VERSION)

C9_WitnessAnalyze ==
  /\ op = "analyze_property_implementation"
  /\ android_version = Some(<<"v","9">>)
  /\ file_key = "vehicle_property_aidl"
  /\ Len(urls) = 1

----------------------------------------------------------------------------
(* C21: what the error object says about the failed candidates.            *)

\* the exception a request logged with this status ended in
ErrorOfStatus(status) ==
  IF status = 0 THEN "Timeout"
  ELSE IF session = "shared" /\ status \in status_forcelist THEN "RetryError"
  ELSE "HTTPError"

\* the error candidate i ended in: that of the last request sent to it
CandidateError(i) ==
  LET last == CHOOSE j \in 1..Len(requests) :
                /\ requests[j].i = i
                /\ \A k \in (j + 1)..Len(requests) : requests[k].i # i
  IN ErrorOfStatus(requests[last].status)

\* C21 as stated: when every candidate has failed, the content of the
\* error object reports the error of each attempted candidate.
C21_AsStated ==
  EveryCandidateFailed =>
    \A i \in 1..Len(urls) : CandidateError(i) = fetched.content.last_error

\* C21: when every candidate has failed, the content of the error object
\* gives the number of candidates and the error of the last candidate
\* only.
C21_ErrorContentIsCountAndLastError ==
  EveryCandidateFailed =>
    /\ fetched.language = "error"
    /\ fetched.content = [count |-> Len(urls),
                          last_error |-> CandidateError(Len(urls))]

\* the first candidate timed out, the second answered 404: the content
\* names the HTTP error only
C21_Witness ==
  /\ EveryCandidateFailed
  /\ requests = << Request(1, 0), Request(2, 404) >>
  /\ fetched.content = [count |-> 2, last_error |-> "HTTPError"]

----------------------------------------------------------------------------
(* C22: version strings that embed a supported number, at both entry       *)
(* points.                                                                 *)

\* the supported versions named by a number
NumberedVersions ==
  { k \in DictKeys(SUPPORTED_ANDROID_VERSIONS) : StartsWith(k, AndroidPrefix) }

\* the version string embeds the number of the supported version k
EmbedsNumberOf(version, k) ==
  /\ version # NoneStr
  /\ Contains(Strip(Lower(version[1])), RemoveAll(k, AndroidPrefix))

\* C22 as stated: a version string that embeds the number of a supported
\* version selects that version's candidate lists, through
\* analyze_property_implementation and through _get_version_specific_urls
\* (the locator of fetch_source_file) alike.
C22_AsStated ==
  \A k \in NumberedVersions :
    ( /\ op \in { "_get_version_specific_urls", "analyze_property_implementation" }
      /\ EmbedsNumberOf(android_version, k) )
    => urls = UrlsFor(Some(k), file_key)

----------------------------------------------------------------------------
(* Claims about the summarizer.                                            *)

\* C10: for every question and every list of documents the string
\* returned by summarize_documentation is at most SUMMARY_LIMIT characters
\* long.
C10_SummaryWithinLimit ==
  op = "summarize_documentation" => summary.len <= SUMMARY_LIMIT

\* C11: for every question, summarize_documentation(question, []) returns
\* the 'no content' message: the fixed text around the question, so it is
\* not empty and is determined by the question alone.
C11_EmptyListGivesNoContentMessage ==
  ( op = "summarize_documentation" /\ content_sections = << >> ) =>
    /\ summary.kind = "no_content"
    /\ summary.len = question.len + 42
    /\ summary.len > 0
    /\ summary.sections = 0
    /\ ~summary.truncated

C11_Witness ==
  /\ op = "summarize_documentation"
  /\ content_sections = << >>
  /\ question.len = 0
  /\ summary.kind = "no_content"
  /\ summary.len > 0

C11_WitnessLongQuestion ==
  /\ op = "summarize_documentation"
  /\ content_sections = << >>
  /\ question.len = SUMMARY_LIMIT
  /\ summary.kind = "no_content"

----------------------------------------------------------------------------
(* C27, C28: the sections of a summary.                                    *)

Summarized == op = "summarize_documentation"

\* top_sections for the question and the documents of this call
TopSections ==
  LET sorted == SortByScore(<< >>, ScoredSections(question, content_sections))
  IN SubSeq(sorted, 1, Min(Len(sorted), MAX_SECTIONS))

\* the loop over top_sections ended at its break: a ranked section was
\* left out because it would take the total over SUMMARY_LIMIT
LeftOutForBudget ==
  /\ Summarized
  /\ summary.kind = "summary"
  /\ summary.sections < Len(TopSections)

\* C27 as stated: when the next ranked section would take the summary over
\* the budget, it is left out whole, no later section is added, and the
\* truncation marker is appended to the summary.
C27_AsStated == LeftOutForBudget => summary.truncated

\* a second section of SECTION_LIMIT characters is left out and the
\* summary ends with the separator of the first, without the marker
C27_LeftOutWithoutMarker ==
  /\ LeftOutForBudget
  /\ summary.sections = 1
  /\ ~summary.truncated
  /\ summary.len = HeaderText + question.len + 1 + SECTION_LIMIT + 1 + SeparatorText

----------------------------------------------------------------------------
(* C28: which sections a summary holds, and in what order.                 *)

\* the documents that can enter a summary: a score above zero and a
\* stripped text of MinSectionLen characters or more; each as the score
\* and the length of the text that would be included
Eligible ==
  LET Ok(doc) == doc.score > 0 /\ doc.clean >= MinSectionLen
      docs == SelectSeq(content_sections, Ok)
  IN [i \in 1..Len(docs) |->
        [score |-> docs[i].score, len |-> Min(docs[i].clean, SECTION_LIMIT)]]

\* the place of the i-th eligible document in the ranking: after the
\* documents of a higher score and the earlier documents of its own score
RankOf(i) ==
  1 + Cardinality({ j \in 1..Len(Eligible) : Eligible[j].score > Eligible[i].score })
    + Cardinality({ j \in 1..(i - 1) : Eligible[j].score = Eligible[i].score })

\* the eligible documents by descending score, equal scores in input order
Ranked ==
  [k \in 1..Len(Eligible) |->
     Eligible[CHOOSE i \in 1..Len(Eligible) : RankOf(i) = k]]

\* C28 as stated: when the question has keywords and some document scores
\* above zero, the sections of the output are a prefix of the ranking of
\* the eligible documents, at most MAX_SECTIONS of them, and no document
\* that scores zero or is too short is in the output.
C28_AsStated ==
  ( Summarized /\ question.keywords
      /\ \E i \in 1..Len(content_sections) : content_sections[i].score > 0 ) =>
    /\ summary.sections <= Min(Len(Ranked), MAX_SECTIONS)
    /\ summary.kind = "summary" =>
         summary.included = SubSeq(Ranked, 1, summary.sections)

\* C28 (amended): when the question has keywords and at least one document
\* is eligible (score above zero and stripped length of 50 or more), the
\* sections of the summary are a prefix of the ranking of the eligible
\* documents by descending score, equal scores in input order, and at most
\* MAX_SECTIONS of them; no other document is in the summary.
C28_SectionsArePrefixOfRanking ==
  ( Summarized /\ question.keywords /\ Eligible # << >> ) =>
    /\ summary.kind = "summary"
    /\ summary.sections <= Min(Len(Ranked), MAX_SECTIONS)
    /\ summary.included = SubSeq(Ranked, 1, summary.sections)

\* four eligible documents, two of them with the same score and different
\* texts, the later documents scoring higher: the summary holds three
C28_Witness ==
  /\ Summarized
  /\ Len(Eligible) = 4
  /\ Eligible[1].score < Eligible[3].score
  /\ Eligible[2].score = Eligible[3].score
  /\ Eligible[2].len # Eligible[3].len
  /\ summary.sections = MAX_SECTIONS
  /\ summary.included = << Eligible[2], Eligible[3], Ranked[3] >>

----------------------------------------------------------------------------
(* Claims about the source validator.                                      *)

SomeAccessible == \E i \in 1..Len(validations) : validations[i].is_accessible

SomeInaccessible == \E i \in 1..Len(validations) : ~validations[i].is_accessible

Scored == op \in { "calculate_confidence_score",
                   "suggest_alternatives_for_failed_sources" }

\* C12 as stated: with an accessible and an inaccessible URL in the list,
\* whatever its length, the score is above 0 and below 100.
C12_AsStated ==
  ( Scored /\ SomeAccessible /\ SomeInaccessible ) =>
    /\ confidence_score.num > 0
    /\ confidence_score.num < 100 * confidence_score.den

\* C12: with an accessible and an inaccessible URL in the list the score
\* is above 0 and at most 100; it is below 100 when the list has fewer than
\* ten results, and for [accessible, unreachable] it is 50, or 52 with
\* the bonus.
C12_ScoreStrictlyInsideForShortLists ==
  ( Scored /\ SomeAccessible /\ SomeInaccessible ) =>
    /\ confidence_score.den = Len(validations)
    /\ confidence_score.num > 0
    /\ confidence_score.num <= 100 * confidence_score.den
    /\ Len(validations) < 10 =>
         confidence_score.num < 100 * confidence_score.den
    /\ Len(validations) = 2 => confidence_score.num \in { 2 * 50, 2 * 52 }

C12_Witness ==
  /\ op = "calculate_confidence_score"
  /\ Len(validations) = 2
  /\ validations[1].is_accessible
  /\ validations[1].last_modified
  /\ Contains(validations[1].url, AndroidCom)
  /\ ~validations[2].is_accessible
  /\ confidence_score = Score(104, 2)

C12_WitnessFull ==
  /\ op = "calculate_confidence_score"
  /\ SomeAccessible
  /\ SomeInaccessible
  /\ confidence_score.num = 100 * confidence_score.den

\* C13: the tool makes one suggestion for each validation result that is
\* not accessible (its probe did not answer 200), in their order, and none
\* for an accessible one: as many suggestions as inaccessible results.
C13_OneSuggestionPerInaccessibleUrl ==
  op = "suggest_alternatives_for_failed_sources" =>
    LET failed == { i \in 1..Len(validations) : ~validations[i].is_accessible }
        unanswered == { i \in 1..Len(probes) :
                          \/ probes[i].answer.kind # "response"
                          \/ probes[i].answer.status # 200 }
    IN /\ Len(suggestions) = Cardinality(failed)
       /\ Len(suggestions) = Cardinality(unanswered)
       /\ \A k \in 1..Len(suggestions) :
            \E i \in failed :
              /\ Cardinality({ j \in failed : j <= i }) = k
              /\ suggestions[k] = Suggestion(validations[i].url)

C13_Witness ==
  /\ op = "suggest_alternatives_for_failed_sources"
  /\ Len(validations) = 2
  /\ validations[1].is_accessible
  /\ ~validations[2].is_accessible
  /\ validations[2].url = DocsUrl
  /\ Len(suggestions) = 1
  /\ suggestions[1].q = <<"v","h","a","l">>

----------------------------------------------------------------------------
(* Claims about the tool functions.                                        *)

\* C14: each of the six tool functions ends by returning a string,
\* whatever its calls end with (a value, no sections, a timeout of the
\* pool, a network or attribute error): no exception reaches the host.
C14_ToolsReturnStrings ==
  /\ tool_pc # "raised"
  /\ tool_pc = "returned" => tool_result.type = "str"
  /\ tool_pc \in { "idle", "running" } => tool_result = NoResult

C14_Witness ==
  /\ tool = "validate_vhal_sources_and_enhance_summary"
  /\ tool_pc = "returned"
  /\ ToolBody(tool)[tool_step] = "validate_sources_parallel"
  /\ tool_result = StrResult(<< "Error", "TimeoutError" >>)

C14_WitnessUnsetSession ==
  /\ tool = "analyze_vhal_implementation"
  /\ tool_pc = "returned"
  /\ analyzer_session = "unset"
  /\ tool_result = StrResult(<< "Error", "AttributeError" >>)

----------------------------------------------------------------------------
(* C29, C30: what the validation tool and the analysis tool return.        *)

\* the place of a call in the body of a tool
StepOf(name, call) ==
  CHOOSE i \in 1..Len(ToolBody(name)) : ToolBody(name)[i] = call

\* the validation tool has returned after its call of
\* summarize_documentation gave the summary
ReturnedAfterSummary ==
  /\ tool = "validate_vhal_sources_and_enhance_summary"
  /\ tool_pc = "returned"
  /\ tool_step > StepOf(tool, "summarize_documentation")

\* C29 as stated: once the summarizer has produced its text, the
\* validation tool returns the formatted result that holds that text,
\* whatever the validation of the sources ends with (an unreachable probe,
\* a status other than 200, a timeout of a probe or of the pool).
C29_AsStated == ReturnedAfterSummary => tool_result = StrResult("result")

\* the pool of the validator times out after the summary was made: the
\* tool returns the error text, which holds the exception and no summary
C29_SummaryLostOnPoolTimeout ==
  /\ ReturnedAfterSummary
  /\ tool_step = StepOf(tool, "validate_sources_parallel")
  /\ tool_result = StrResult(<< "Error", "TimeoutError" >>)
  /\ tool_calls = 1

\* the analysis tool has returned from its first statement, the read of
\* AndroidSourceCodeAnalyzer._session
ReturnedAtSessionRead ==
  /\ tool = "analyze_vhal_implementation"
  /\ tool_pc = "returned"
  /\ tool_step = StepOf(tool, "AndroidSourceCodeAnalyzer._session")

\* C30 as stated: a call of analyze_vhal_implementation at any moment,
\* before or after the start-up thread has installed the shared session or
\* when that thread never installs it, finds or installs the session and
\* goes on to the analysis; it never returns an error caused by the unset
\* attribute.
C30_AsStated == ~ReturnedAtSessionRead

\* the call is made while the start-up thread has not yet set the
\* attribute, and a second call after the thread is done goes past the read
C30_ErrorBeforeStartupThread ==
  /\ ReturnedAtSessionRead
  /\ init_thread = "pending"
  /\ analyzer_session = "unset"
  /\ tool_result = StrResult(<< "Error", "AttributeError" >>)

----------------------------------------------------------------------------
(* C15: the indexes are constructed at most once, and no query reads,      *)
(* returns or memoises a result computed from indexes whose construction   *)
(* has not completed.                                                      *)

\* what the query returns when the indexes are complete
CompleteResult ==
  search_properties([keyword |-> BuiltKeywordIndex, category |-> BuiltCategoryIndex,
                     exact |-> BuiltExactMatchIndex,
                     partial |-> BuiltPartialMatchIndex],
                    keyword, IterOrder(set_order))

\* C15: at most one construction is started; a query that has read the
\* indexes read them complete; whatever the cache of search_properties
\* holds is the result on the complete indexes.
C15_AsStated ==
  /\ constructions <= 1
  /\ query_outcome.kind # "none" => query_outcome.complete
  /\ \A i \in 1..Len(memo) : memo[i].value = CompleteResult

----------------------------------------------------------------------------
(* C16, C17, C19: the batch operations at and after their deadline, and    *)
(* the order of the analyzer's fetches.                                    *)

\* the operation is over
BatchOver == batch_pc \in { "returned", "raised" }

\* the deadline expired while submitted tasks were not finished
ExpiredWithUnfinished == deadline /\ waited_for # {}

\* C16: when the deadline of the join expires with workers unfinished, the
\* batch operation returns the results gathered so far, the high-priority
\* ones included, and raises nothing.
C16_AsStated ==
  BatchOver /\ ExpiredWithUnfinished =>
    /\ batch_pc = "returned"
    /\ batch_result = [type |-> "list", value |-> gathered]

\* C17: after the deadline the batch operation returns without waiting
\* for the workers that are still running: no task finishes between the
\* expiry and the moment the operation is over.
C17_AsStated ==
  BatchOver /\ pending_exc = "TimeoutError" => waited_for = {}

\* C19: in analyze_property_implementation a fetch of lower priority
\* starts only after every priority-1 fetch has finished, and no
\* priority-1 fetch is under way after that.
C19_HighPriorityBeforeLow ==
  \A i \in 1..Len(fetch_log) :
    fetch_log[i].event = "start" /\ Priority(fetch_log[i].key) > 1 =>
      /\ \A h \in 1..Len(files_to_fetch) :
           files_to_fetch[h].priority = 1 =>
             \E j \in 1..(i - 1) :
               fetch_log[j] = [key |-> files_to_fetch[h].key, event |-> "finish"]
      /\ \A j \in (i + 1)..Len(fetch_log) : Priority(fetch_log[j].key) # 1

\* the analysis has fetched its six files and returned
C19_Witness ==
  /\ batch = "analyze_property_implementation"
  /\ batch_pc = "returned"
  /\ Len(fetch_log) = 2 * Len(files_to_fetch)
  /\ \E i \in 1..Len(fetch_log) :
       fetch_log[i].event = "start" /\ Priority(fetch_log[i].key) = 3

----------------------------------------------------------------------------
(* C18: the order of the requests of one call of fetch_source_file.        *)

\* C18: the candidates are requested in list order starting with the
\* first; a request goes to the next candidate only directly after a
\* failed request to the one before it, never to an earlier or a later
\* one; no request follows a successful one; one request is under way at
\* a time, each being answered before the next is sent.
C18_CandidatesInOrder ==
  /\ requests # << >> => requests[1].i = 1
  /\ \A k \in 1..Len(requests) : requests[k].i \in 1..Len(urls)
  /\ \A k \in 1..(Len(requests) - 1) :
       /\ requests[k].status # 200
       /\ requests[k + 1].i \in { requests[k].i, requests[k].i + 1 }
  /\ fetch_pc = "requesting" =>
       /\ url_i \in 1..Len(urls)
       /\ \A k \in 1..Len(requests) : requests[k].i <= url_i
       /\ \A j \in 1..(url_i - 1) : \E k \in 1..Len(requests) :
            requests[k].i = j /\ requests[k].status # 200

\* the second candidate answered after the first had failed
C18_Witness ==
  /\ fetch_pc = "returned"
  /\ Len(requests) >= 2
  /\ requests[1] = [i |-> 1, status |-> 404]
  /\ requests[Len(requests)] = [i |-> 2, status |-> 200]

----------------------------------------------------------------------------
(* C20: which fetching operations use the content cache.                   *)

\* fetch_source_file has returned the file of a candidate that answered
FetchSucceeded ==
  /\ fetch_pc = "returned"
  /\ fetched # NoFile
  /\ fetched.language # "error"

C20_WitnessFetch ==
  /\ FetchSucceeded
  /\ _content_cache # << >>
  /\ requests # << >>

====
